---- MODULE Spec2Model ----
(***************************************************************************)
(* Graph intelligence and investigation pipeline of localwebb-cloud.       *)
(*                                                                         *)
(*   Spec        the investigation pipeline (api/investigator.py)          *)
(*   SpecChunks  the session's chunk pool filled by _add_chunks            *)
(*   SpecResolve find_entity_id (api/graph_ops.py)                         *)
(*   SpecPaths   find_paths (api/graph_ops.py)                             *)
(*                                                                         *)
(* Python strings are modelled as sequences of one-character strings.      *)
(***************************************************************************)
EXTENDS Integers, Sequences, FiniteSets, TLC

VARIABLES
    \* ---- investigation session (api/investigator.py) ----
    pc,                   \* where the generator is suspended
    mode,                 \* "files_only" | "files_web"
    log,                  \* emitted SSE events and collaborator calls, in order
    primary_entity,
    secondary_entities,
    reformulated_queries,
    key_terms,
    entity_intel,
    graph_evidence,
    discovered_entities,
    all_context_chunks,
    seen_texts,
    errors_log,
    errors,               \* per-pass errors of the semantic search
    pass_count,
    kw_idx,               \* position in the keyword-search name loop
    keyword_results,
    chunk_queue,
    producer,             \* position of the _produce_chunks thread
    produced,             \* stream chunks read by the producer so far
    synthesis_text_parts,
    web_sources,
    failed_calls,         \* history: phases in which a collaborator call raised
    stream_cap,           \* the longest stream the text model answers with
    \* ---- find_entity_id ----
    r_pc, r_nodes, r_name, r_result,
    \* ---- find_paths ----
    f_pc, f_edges, f_start, f_end, f_max_hops, f_max_paths, f_queue, f_visited_paths,
    \* ---- find_paths_narrative ----
    n_pc, n_graph, n_name_a, n_name_b, n_id_a, n_id_b, n_result,
    \* ---- the relational store: the nodes and edges tables ----
    s_nodes, s_edges,
    \* ---- deduplicate_graph ----
    d_pc, d_client, d_raw_nodes, d_merged, d_remap, d_heuristic_removed, d_gemini_merges,
    d_todo, d_pair, d_self_loop_ids, d_dup_edge_ids, d_reports,
    d_batch, d_all_merge_groups, d_duplicate_ids,
    d_chunks,             \* the chunks the current chunked loop has still to send
    d_failed_batches,     \* history: the batches of the run whose call or parse raised
    d_store0,             \* history: the store before the first run
    d_interrupted,        \* history: the merge groups of a run that an exception ended
    \* ---- SupabaseStore.add_elements ----
    a_pc, a_new_nodes, a_new_edges,
    \* ---- query_index ----
    q_pc, q_query, q_store, q_match, q_graph_context, q_response,
    \* ---- _semantic_search_pass ----
    p_pc, p_matches, p_rerank_fn, p_rerank_top_n, p_candidates, p_rerank_calls,
    p_rerank_raised, p_outcome,
    \* ---- bfs_collect_evidence ----
    b_pc, b_edges, b_start, b_max_hops, b_max_edges, b_hop, b_frontier, b_idx,
    b_next_frontier, b_visited_nodes, b_collected_edges, b_seen_edge_ids,
    b_fetches,            \* history: the nodes whose edges were fetched, in order
    b_result,
    \* ---- process_upload ----
    u_pc, u_doc, u_page, u_pos, u_i, u_attempt, u_batch,
    u_calls,              \* history: the embedding calls, in order, with their outcome
    u_upserts,            \* history: the vector ids the index was sent, in order
    \* ---- the investigate endpoints (api/index.py) ----
    h_pc, h_endpoint, h_index, h_client, h_supabase, h_entity_id, h_case_context,
    h_store_calls, h_response

sessionVars ==
    <<pc, mode, log, primary_entity, secondary_entities, reformulated_queries, key_terms,
      entity_intel, graph_evidence, discovered_entities, errors_log, errors,
      pass_count, kw_idx, keyword_results, chunk_queue, producer,
      produced, synthesis_text_parts, web_sources, failed_calls, stream_cap>>

poolVars ==
    <<all_context_chunks, seen_texts>>

resolveVars ==
    <<r_pc, r_nodes, r_name, r_result>>

pathVars ==
    <<f_pc, f_edges, f_start, f_end, f_max_hops, f_max_paths, f_queue, f_visited_paths>>

narrativeVars ==
    <<n_pc, n_graph, n_name_a, n_name_b, n_id_a, n_id_b, n_result>>

\* the state of the operations outside the investigation session and graph_ops' two
\* search functions
storeVars ==
    <<s_nodes, s_edges>>

pass2Locals ==
    <<d_batch, d_all_merge_groups, d_failed_batches>>

applyLocals ==
    <<d_duplicate_ids, d_chunks>>

dedupLocals ==
    <<d_raw_nodes, d_merged, d_remap, d_heuristic_removed, d_gemini_merges, d_todo,
      d_pair, d_self_loop_ids, d_dup_edge_ids, pass2Locals, applyLocals>>

dedupVars ==
    <<d_pc, d_client, dedupLocals, d_reports, d_store0, d_interrupted>>

addVars ==
    <<a_pc, a_new_nodes, a_new_edges>>

\* the store and the operations that write it
writerVars ==
    <<storeVars, dedupVars, addVars>>

queryVars ==
    <<q_pc, q_query, q_store, q_match, q_graph_context, q_response>>

\* the request handlers outside the investigation and deduplicate
searchVars ==
    <<p_pc, p_matches, p_rerank_fn, p_rerank_top_n, p_candidates, p_rerank_calls,
      p_rerank_raised, p_outcome>>

\* investigate and investigate_case, up to the streaming response
handlerVars ==
    <<h_pc, h_endpoint, h_index, h_client, h_supabase, h_entity_id, h_case_context,
      h_store_calls, h_response>>

endpointVars ==
    <<queryVars, searchVars, handlerVars>>

bfsVars ==
    <<b_pc, b_edges, b_start, b_max_hops, b_max_edges, b_hop, b_frontier, b_idx,
      b_next_frontier, b_visited_nodes, b_collected_edges, b_seen_edge_ids, b_fetches,
      b_result>>

uploadVars ==
    <<u_pc, u_doc, u_page, u_pos, u_i, u_attempt, u_batch, u_calls, u_upserts>>

extVars ==
    <<narrativeVars, writerVars, endpointVars, bfsVars, uploadVars>>

vars ==
    <<sessionVars, poolVars, resolveVars, pathVars, extVars>>

(***************************************************************************)
(* Strings                                                                 *)
(***************************************************************************)
Whitespace ==
    {" ", "\t", "\n"}

IsWs(c) ==
    c \in Whitespace

UpperCase ==
    <<"A","B","C","D","E","F","G","H","I","J","K","L","M",
      "N","O","P","Q","R","S","T","U","V","W","X","Y","Z">>

LowerCase ==
    <<"a","b","c","d","e","f","g","h","i","j","k","l","m",
      "n","o","p","q","r","s","t","u","v","w","x","y","z">>

Digits ==
    {"0","1","2","3","4","5","6","7","8","9"}

\* str.lower(), character by character
ToLower(c) ==
    IF \E i \in DOMAIN UpperCase : UpperCase[i] = c
    THEN LowerCase[CHOOSE i \in DOMAIN UpperCase : UpperCase[i] = c]
    ELSE c

RECURSIVE LeadingWs(_, _)
LeadingWs(s, i) ==
    IF i > Len(s) \/ ~IsWs(s[i]) THEN i ELSE LeadingWs(s, i + 1)

RECURSIVE TrailingWs(_, _)
TrailingWs(s, j) ==
    IF j < 1 \/ ~IsWs(s[j]) THEN j ELSE TrailingWs(s, j - 1)

\* str.strip()
Strip(s) ==
    LET i == LeadingWs(s, 1)
        j == TrailingWs(s, Len(s))
    IN  IF i > j THEN <<>> ELSE SubSeq(s, i, j)

\* re.sub(r'\s+', ' ', s): every maximal run of whitespace becomes one blank
CollapseWs(s) ==
    LET marked == [i \in DOMAIN s |->
                      IF IsWs(s[i])
                      THEN (IF i > 1 /\ IsWs(s[i - 1]) THEN "" ELSE " ")
                      ELSE s[i]]
    IN  SelectSeq(marked, LAMBDA c : c # "")

\* s[:n]
Prefix(s, n) ==
    IF Len(s) <= n THEN s ELSE SubSeq(s, 1, n)

\* a containment test that the empty string does not pass
IsSubstringNonEmpty(a, b) ==
    a # <<>> /\ \E k \in 0..(Len(b) - Len(a)) : SubSeq(b, k + 1, k + Len(a)) = a

\* a in b, for strings
IsSubstring(a, b) ==
    \E k \in 0..(Len(b) - Len(a)) : SubSeq(b, k + 1, k + Len(a)) = a

(***************************************************************************)
(* _add_chunks: the deduplicated chunk pool of a session                   *)
(***************************************************************************)
SigPrefixLen ==
    500

\* sig = re.sub(r'\s+', ' ', c["text"][:500]).strip()
ChunkSig(text) ==
    Strip(CollapseWs(Prefix(text, SigPrefixLen)))

\* A chunk is a record with a text field; anything else in the list is skipped.
IsChunk(c) ==
    "text" \in DOMAIN c

RECURSIVE AddChunksFrom(_, _, _)
AddChunksFrom(chunks, pool, seen) ==
    IF chunks = <<>> THEN [pool |-> pool, seen |-> seen]
    ELSE LET c == Head(chunks)
         IN  IF ~IsChunk(c) THEN AddChunksFrom(Tail(chunks), pool, seen)
             ELSE LET sig == ChunkSig(c.text)
                  IN  IF sig \in seen
                      THEN AddChunksFrom(Tail(chunks), pool, seen)
                      ELSE AddChunksFrom(Tail(chunks), Append(pool, c), seen \cup {sig})

\* _add_chunks(chunks), as the new values of all_context_chunks and seen_texts
AddChunks(chunks) ==
    LET r == AddChunksFrom(chunks, all_context_chunks, seen_texts)
    IN  /\ all_context_chunks' = r.pool
        /\ seen_texts' = r.seen

(***************************************************************************)
(* Investigation pipeline: values                                          *)
(***************************************************************************)
Acme ==
    <<"A","c","m","e">>

Smith ==
    <<"S","m","i","t","h">>

Jo ==
    <<"J","o">>

Beta ==
    <<"B","e","t","a">>

\* A JSON value of the analysis answer: a list, or something that is no list.
JList(items) ==
    [type |-> "list", items |-> items]

JNull ==
    [type |-> "null", items |-> <<>>]

JNumber ==
    [type |-> "number", items |-> <<>>]

\* bool(v) of a JSON value
Truthy(v) ==
    \/ v.type = "number"
    \/ v.type = "list" /\ v.items # <<>>

\* len(v) raises TypeError unless v is a list
HasLen(v) ==
    v.type = "list"

\* One parsed answer of the query analysis
Analysis(p, s, r) ==
    [primary_entity |-> p, secondary_entities |-> s, reformulated_queries |-> r,
     key_terms |-> JList(<<"term">>)]

\* The analysis answers the model is given: general and entity queries with every
\* number of reformulations the pass logic distinguishes, and two answers whose
\* fields are not lists (a number, a null).
AnalysisChoices ==
    {Analysis(<<>>, JList(<<>>), JList(<<>>)),
     Analysis(<<>>, JList(<<Smith>>), JList(<<"r1">>)),
     Analysis(<<>>, JList(<<>>), JList(<<"r1", "r2">>)),
     Analysis(Acme, JList(<<>>), JList(<<"r1", "r2", "r3">>)),
     Analysis(Acme, JList(<<Smith>>), JList(<<>>)),
     Analysis(<<>>, JNumber, JList(<<>>)),
     Analysis(<<>>, JList(<<>>), JNull)}

\* Document chunks the vector index can return ("a b" and "a  b" share a signature).
ChunkAB ==
    [text |-> <<"a"," ","b">>, filename |-> "f1", page |-> 1]

ChunkAB2 ==
    [text |-> <<"a"," "," ","b">>, filename |-> "f2", page |-> 1]

ChunkC ==
    [text |-> <<"c">>, filename |-> "f1", page |-> 2]

SemanticResults ==
    {<<>>, <<ChunkAB>>}

KeywordVectorResults ==
    {<<>>, <<ChunkAB2>>}

NoIntel ==
    [found |-> FALSE, aliases |-> "list"]

Steps ==
    <<"query_analysis", "entity_intel", "graph_traversal",
      "semantic_search", "keyword_search", "synthesis">>

\* _sse(event_type, data); phase is the section of the source that yields it
Event(type, step, status, detail, phase) ==
    [kind |-> "event", type |-> type, step |-> step, status |-> status,
     detail |-> detail, phase |-> phase]

StepStatus(step, status, detail) ==
    Event("step_status", step, status, detail, step)

\* a call of an external collaborator, made by the code of `phase`
Call(name, arg, phase) ==
    [kind |-> "call", type |-> name, step |-> "", status |-> "",
     detail |-> arg, phase |-> phase]

Emit(e) ==
    log' = Append(log, e)

EmitAfterCall(c, e) ==
    log' = log \o <<c, e>>

(***************************************************************************)
(* Investigation pipeline: phases A-D                                      *)
(*                                                                         *)
(* One action per stretch of _run_investigation_inner between two points   *)
(* where the generator is suspended (a yield, or an awaited collaborator   *)
(* call); pc names the stretch that runs next.                             *)
(***************************************************************************)
analysisVars ==
    <<primary_entity, secondary_entities, reformulated_queries, key_terms>>

intelVars ==
    <<entity_intel, discovered_entities>>

semVars ==
    <<errors, pass_count>>

kwVars ==
    <<kw_idx, keyword_results>>

synthVars ==
    <<chunk_queue, producer, produced, synthesis_text_parts, web_sources>>

otherSpecs ==
    <<resolveVars, pathVars, extVars, stream_cap>>

\* Phase A: yield running
StartQueryAnalysis ==
    /\ pc = "start"
    /\ Emit(StepStatus("query_analysis", "running", ""))
    /\ pc' = "A_analyze"
    /\ UNCHANGED <<mode, analysisVars, intelVars, graph_evidence, errors_log, semVars,
                   kwVars, synthVars, failed_calls, poolVars, otherSpecs>>

\* a fallback that keeps a primary entity
AnalysisFallbackKeepsPrimary ==
    [primary_entity |-> Acme, secondary_entities |-> JList(<<>>),
     reformulated_queries |-> JList(<<>>), key_terms |-> JList(<<"query.strip()">>)]

\* the except branch of the analysis: no entities, no reformulations, and the
\* stripped raw query as the only key term
AnalysisFallback ==
    [primary_entity |-> <<>>, secondary_entities |-> JList(<<>>),
     reformulated_queries |-> JList(<<>>), key_terms |-> JList(<<"query.strip()">>)]

\* Phase A: the model call, the parse and the terminal event
QueryAnalysis ==
    /\ pc = "A_analyze"
    /\ \/ \* the call raises, or its text is no JSON object: fall back to the raw query
          /\ errors_log' = Append(errors_log, "Query Analysis")
          /\ failed_calls' = failed_calls \cup {"query_analysis"}
          /\ primary_entity' = AnalysisFallback.primary_entity
          /\ secondary_entities' = AnalysisFallback.secondary_entities
          /\ reformulated_queries' = AnalysisFallback.reformulated_queries
          /\ key_terms' = AnalysisFallback.key_terms
          /\ EmitAfterCall(Call("generate_content", "analysis", "query_analysis"),
                           StepStatus("query_analysis", "error", "fallback"))
          /\ pc' = "B_entry"
       \/ \E analysis \in AnalysisChoices :
          /\ primary_entity' = Strip(analysis.primary_entity)
          /\ secondary_entities' = analysis.secondary_entities
          /\ reformulated_queries' = analysis.reformulated_queries
          /\ key_terms' = analysis.key_terms
          /\ UNCHANGED <<errors_log, failed_calls>>
          /\ IF Truthy(analysis.secondary_entities) /\ ~HasLen(analysis.secondary_entities)
             THEN \* len(secondary_entities) raises outside every try
                  /\ log' = Append(log, Call("generate_content", "analysis", "query_analysis"))
                  /\ pc' = "crash"
             ELSE /\ EmitAfterCall(Call("generate_content", "analysis", "query_analysis"),
                                   StepStatus("query_analysis", "done", "analysis"))
                  /\ pc' = "B_entry"
    /\ UNCHANGED <<mode, intelVars, graph_evidence, semVars, kwVars, synthVars,
                   poolVars, otherSpecs>>

\* Phase B: running, or done "Skipped" when there is no primary entity
EntityIntelEntry ==
    /\ pc = "B_entry"
    /\ IF primary_entity # <<>>
       THEN /\ Emit(StepStatus("entity_intel", "running", ""))
            /\ pc' = "B_lookup"
       ELSE /\ Emit(StepStatus("entity_intel", "done", "skipped"))
            /\ pc' = "C_entry"
    /\ UNCHANGED <<mode, analysisVars, intelVars, graph_evidence, errors_log, semVars,
                   kwVars, synthVars, failed_calls, poolVars, otherSpecs>>

\* what lookup_entity_intel can answer for an entity it finds: the labels of the
\* connected entities, and the aliases column (a list, or null in the store)
FoundChoices ==
    {[connected |-> <<Beta>>, aliases |-> "list"],
     [connected |-> <<Jo>>, aliases |-> "null"]}

\* the except branch followed by the done event, as if detail were not None
EntityIntelFailureThenDone ==
    <<StepStatus("entity_intel", "error", "exception"),
      StepStatus("entity_intel", "done", "profile")>>

\* the events of the except branch of the lookup: the error event, and no done
\* event after it (detail is None)
EntityIntelFailureEvents ==
    <<StepStatus("entity_intel", "error", "exception")>>

\* Phase B: lookup_entity_intel and the terminal event
EntityIntelLookup ==
    /\ pc = "B_lookup"
    /\ \/ /\ errors_log' = Append(errors_log, "Entity Intel")
          /\ failed_calls' = failed_calls \cup {"entity_intel"}
          /\ log' = log \o <<Call("lookup_entity_intel", "primary", "entity_intel")>>
                         \o EntityIntelFailureEvents
          /\ UNCHANGED intelVars
       \/ /\ entity_intel' = [found |-> FALSE, aliases |-> "list"]
          /\ EmitAfterCall(Call("lookup_entity_intel", "primary", "entity_intel"),
                           StepStatus("entity_intel", "done", "not_found"))
          /\ UNCHANGED <<discovered_entities, errors_log, failed_calls>>
       \/ \E f \in FoundChoices :
          /\ entity_intel' = [found |-> TRUE, aliases |-> f.aliases]
          /\ discovered_entities' = f.connected
          /\ EmitAfterCall(Call("lookup_entity_intel", "primary", "entity_intel"),
                           StepStatus("entity_intel", "done", "profile"))
          /\ UNCHANGED <<errors_log, failed_calls>>
    /\ pc' = "C_entry"
    /\ UNCHANGED <<mode, analysisVars, graph_evidence, semVars, kwVars, synthVars,
                   poolVars, otherSpecs>>

\* a Phase C that traverses whether or not an entity was found
GraphTraversalEntryUnguarded ==
    /\ pc = "C_entry"
    /\ Emit(StepStatus("graph_traversal", "running", ""))
    /\ pc' = "C_collect"
    /\ UNCHANGED <<mode, analysisVars, intelVars, graph_evidence, errors_log, semVars,
                   kwVars, synthVars, failed_calls, poolVars, otherSpecs>>

\* Phase C: running, or done "Skipped" unless EntityIntel found the entity
GraphTraversalEntry ==
    /\ pc = "C_entry"
    /\ IF entity_intel.found
       THEN /\ Emit(StepStatus("graph_traversal", "running", ""))
            /\ pc' = "C_collect"
       ELSE /\ Emit(StepStatus("graph_traversal", "done", "skipped"))
            /\ pc' = "D_entry"
    /\ UNCHANGED <<mode, analysisVars, intelVars, graph_evidence, errors_log, semVars,
                   kwVars, synthVars, failed_calls, poolVars, otherSpecs>>

EvidenceChoices ==
    {<<>>, <<"e1">>}

\* Phase C: bfs_collect_evidence and the terminal event
GraphTraversalCollect ==
    /\ pc = "C_collect"
    /\ \/ /\ errors_log' = Append(errors_log, "Graph Traversal")
          /\ failed_calls' = failed_calls \cup {"graph_traversal"}
          /\ graph_evidence' = <<>>
          /\ EmitAfterCall(Call("bfs_collect_evidence", "entity_id", "graph_traversal"),
                           StepStatus("graph_traversal", "error", "exception"))
       \/ \E ev \in EvidenceChoices :
          /\ graph_evidence' = ev
          /\ EmitAfterCall(Call("bfs_collect_evidence", "entity_id", "graph_traversal"),
                           StepStatus("graph_traversal", "done", "collected"))
          /\ UNCHANGED <<errors_log, failed_calls>>
    /\ pc' = "D_entry"
    /\ UNCHANGED <<mode, analysisVars, intelVars, semVars, kwVars, synthVars,
                   poolVars, otherSpecs>>

\* Phase D: yield running "Starting pass 1..."
SemanticStart ==
    /\ pc = "D_entry"
    /\ Emit(StepStatus("semantic_search", "running", "pass1"))
    /\ pc' = "D_pass1"
    /\ UNCHANGED <<mode, analysisVars, intelVars, graph_evidence, errors_log, semVars,
                   kwVars, synthVars, failed_calls, poolVars, otherSpecs>>

\* a pass whose failure throws away what the other passes found
PassOutcomeFailureClearsPool(n, err, results) ==
    IF err
    THEN /\ errors' = Append(errors, n)
         /\ failed_calls' = failed_calls \cup {"semantic_search"}
         /\ all_context_chunks' = <<>>
         /\ seen_texts' = {}
         /\ UNCHANGED pass_count
    ELSE /\ AddChunks(results)
         /\ pass_count' = pass_count + 1
         /\ UNCHANGED <<errors, failed_calls>>

\* what follows one _safe_semantic_pass of the semantic search: (results, err)
PassOutcome(n, err, results) ==
    IF err
    THEN /\ errors' = Append(errors, n)
         /\ failed_calls' = failed_calls \cup {"semantic_search"}
         /\ UNCHANGED <<poolVars, pass_count>>
    ELSE /\ AddChunks(results)
         /\ pass_count' = pass_count + 1
         /\ UNCHANGED <<errors, failed_calls>>

\* Pass 1: the original query, then the first heartbeat
SemanticPass1 ==
    /\ pc = "D_pass1"
    /\ \E err \in BOOLEAN, results \in SemanticResults :
          /\ err => results = <<>>
          /\ PassOutcome(1, err, results)
          /\ EmitAfterCall(Call("semantic_search", "query", "semantic_search"),
                           StepStatus("semantic_search", "running",
                                      IF err THEN "pass1_failed" ELSE "pass1_ok"))
    /\ pc' = "D_pass2"
    /\ UNCHANGED <<mode, analysisVars, intelVars, graph_evidence, errors_log,
                   kwVars, synthVars, otherSpecs>>

\* the query text of pass 2 ("" when there is none)
Pass2Query ==
    LET rq == reformulated_queries.items
    IN  IF Len(rq) >= 2 THEN "r1 r2"
        ELSE IF rq # <<>> THEN "r1"
        ELSE IF discovered_entities # <<>> THEN "query discovered"
        ELSE ""

\* Pass 2: the reformulated query, then the second heartbeat
SemanticPass2 ==
    /\ pc = "D_pass2"
    /\ IF ~HasLen(reformulated_queries)
       THEN \* len(reformulated_queries) raises outside every try
            /\ pc' = "crash"
            /\ UNCHANGED <<log, semVars, failed_calls, poolVars>>
       ELSE /\ pc' = "D_pass3"
            /\ IF Pass2Query # ""
               THEN \E err \in BOOLEAN, results \in SemanticResults :
                       /\ err => results = <<>>
                       /\ PassOutcome(2, err, results)
                       /\ EmitAfterCall(Call("semantic_search", Pass2Query, "semantic_search"),
                                        StepStatus("semantic_search", "running", "passes"))
               ELSE /\ Emit(StepStatus("semantic_search", "running", "passes"))
                    /\ UNCHANGED <<semVars, failed_calls, poolVars>>
    /\ UNCHANGED <<mode, analysisVars, intelVars, graph_evidence, errors_log,
                   kwVars, synthVars, otherSpecs>>

TopConnected ==
    IF discovered_entities # <<>> THEN discovered_entities[1]
    ELSE IF secondary_entities.items # <<>> THEN secondary_entities.items[1]
    ELSE <<>>

\* the query text of pass 3 ("" when there is none)
Pass3Query ==
    LET rq == reformulated_queries.items
    IN  IF TopConnected # <<>> /\ primary_entity # <<>> THEN "primary top_connected"
        ELSE IF Len(rq) >= 3 THEN "r3"
        ELSE IF Len(rq) >= 2 /\ TopConnected = <<>> THEN "r2"
        ELSE ""

\* a semantic search that ends on one more heartbeat instead of a terminal event
SemanticTerminalStillRunning(errs, chunks) ==
    StepStatus("semantic_search", "running", "passes")

\* the terminal event of the semantic search, from the values after pass 3
SemanticTerminal(errs, chunks) ==
    IF errs # <<>> /\ chunks = <<>>
    THEN StepStatus("semantic_search", "error", "all_failed")
    ELSE StepStatus("semantic_search", "done",
                    IF errs # <<>> THEN "passes_with_errors" ELSE "passes")

\* Pass 3 (conditional), the phase's entry in errors_log and the terminal event
SemanticPass3 ==
    /\ pc = "D_pass3"
    /\ IF Pass3Query # ""
       THEN \E err \in BOOLEAN, results \in SemanticResults :
               /\ err => results = <<>>
               /\ PassOutcome(3, err, results)
               /\ log' = log \o <<Call("semantic_search", Pass3Query, "semantic_search"),
                                  SemanticTerminal(errors', all_context_chunks')>>
       ELSE /\ UNCHANGED <<semVars, failed_calls, poolVars>>
            /\ Emit(SemanticTerminal(errors, all_context_chunks))
    /\ errors_log' = IF errors' # <<>> THEN Append(errors_log, "Semantic Search")
                     ELSE errors_log
    /\ pc' = "E_entry"
    /\ UNCHANGED <<mode, analysisVars, intelVars, graph_evidence,
                   kwVars, synthVars, otherSpecs>>

(***************************************************************************)
(* Investigation pipeline: phases E-F and the outer driver                 *)
(***************************************************************************)
MinNameLen ==
    2

KeywordQueryLimit ==
    3

\* the names the keyword search looks for
SearchNames ==
    LET candidates == (IF primary_entity # <<>> THEN <<primary_entity>> ELSE <<>>)
                      \o Prefix(secondary_entities.items, 2)
                      \o Prefix(discovered_entities, 2)
    IN  SelectSeq(candidates, LAMBDA n : n # <<>> /\ Len(n) > MinNameLen)

\* Phase E: yield running
KeywordStart ==
    /\ pc = "E_entry"
    /\ Emit(StepStatus("keyword_search", "running", ""))
    /\ kw_idx' = 1
    /\ pc' = "E_query"
    /\ UNCHANGED <<mode, analysisVars, intelVars, graph_evidence, errors_log, semVars,
                   keyword_results, synthVars, failed_calls, poolVars, otherSpecs>>

\* Phase E: one filtered vector query of the loop over search_names[:3];
\* the error half of _safe_semantic_pass's answer is bound to _ and dropped
KeywordVectorQuery ==
    /\ pc = "E_query"
    /\ kw_idx <= Len(Prefix(SearchNames, KeywordQueryLimit))
    /\ \E err \in BOOLEAN, kw_results \in KeywordVectorResults :
          /\ err => kw_results = <<>>
          /\ AddChunks(kw_results)
          /\ failed_calls' = IF err THEN failed_calls \cup {"keyword_search"}
                             ELSE failed_calls
    /\ log' = Append(log, Call("semantic_search", "name", "keyword_search"))
    /\ kw_idx' = kw_idx + 1
    /\ UNCHANGED <<pc, mode, analysisVars, intelVars, graph_evidence, errors_log, semVars,
                   keyword_results, synthVars, otherSpecs>>

\* Phase E: keyword_search_evidence and the terminal event
KeywordRelational ==
    /\ pc = "E_query"
    /\ kw_idx > Len(Prefix(SearchNames, KeywordQueryLimit))
    /\ IF SearchNames # <<>>
       THEN \/ /\ errors_log' = Append(errors_log, "Keyword Search")
               /\ failed_calls' = failed_calls \cup {"keyword_search"}
               /\ EmitAfterCall(Call("keyword_search_evidence", "names", "keyword_search"),
                                StepStatus("keyword_search", "error", "exception"))
               /\ UNCHANGED keyword_results
            \/ \E rows \in EvidenceChoices :
               /\ keyword_results' = rows
               /\ EmitAfterCall(Call("keyword_search_evidence", "names", "keyword_search"),
                                StepStatus("keyword_search", "done", "counts"))
               /\ UNCHANGED <<errors_log, failed_calls>>
       ELSE /\ Emit(StepStatus("keyword_search", "done", "counts"))
            /\ UNCHANGED <<keyword_results, errors_log, failed_calls>>
    /\ pc' = "F_entry"
    /\ UNCHANGED <<mode, analysisVars, intelVars, graph_evidence, semVars, kw_idx,
                   synthVars, poolVars, otherSpecs>>

\* Phase F: yield running
SynthesisStart ==
    /\ pc = "F_entry"
    /\ Emit(StepStatus("synthesis", "running", ""))
    /\ pc' = "F_context"
    /\ UNCHANGED <<mode, analysisVars, intelVars, graph_evidence, errors_log, semVars,
                   kwVars, synthVars, failed_calls, poolVars, otherSpecs>>

\* not full_context.strip(): no context part at all, and no "data gaps" section
ContextEmpty ==
    /\ all_context_chunks = <<>>
    /\ graph_evidence = <<>>
    /\ ~entity_intel.found
    /\ keyword_results = <<>>
    /\ errors_log = <<>>

\* Phase F: the context is assembled; the run ends here when it is empty
SynthesisContext ==
    /\ pc = "F_context"
    /\ IF entity_intel.found /\ entity_intel.aliases = "null"
       THEN \* ', '.join(None) raises outside every try
            /\ pc' = "crash"
            /\ UNCHANGED <<log, producer>>
       ELSE IF ContextEmpty
       THEN /\ Emit(Event("text", "", "", "no_information", "synthesis"))
            /\ pc' = "F_nc_status"
            /\ UNCHANGED producer
       ELSE IF mode = "files_web"
       THEN /\ Emit(Event("step_status", "web_search", "running", "", "synthesis"))
            /\ pc' = "F_launch"
            /\ UNCHANGED producer
       ELSE /\ producer' = "call"
            /\ pc' = "F_consume"
            /\ UNCHANGED log
    /\ UNCHANGED <<mode, analysisVars, intelVars, graph_evidence, errors_log, semVars,
                   kwVars, chunk_queue, produced, synthesis_text_parts, web_sources,
                   failed_calls, poolVars, otherSpecs>>

NoContextStatus ==
    /\ pc = "F_nc_status"
    /\ Emit(StepStatus("synthesis", "done", "no_context"))
    /\ pc' = "F_nc_done"
    /\ UNCHANGED <<mode, analysisVars, intelVars, graph_evidence, errors_log, semVars,
                   kwVars, synthVars, failed_calls, poolVars, otherSpecs>>

\* the empty-context branch without its return
AfterNoContextDoneFallsThrough ==
    "F_launch"

\* where the generator goes after the done of the empty-context branch (return)
AfterNoContextDone ==
    "finished"

NoContextDone ==
    /\ pc = "F_nc_done"
    /\ Emit(Event("done", "", "", "", "synthesis"))
    /\ pc' = AfterNoContextDone
    /\ UNCHANGED <<mode, analysisVars, intelVars, graph_evidence, errors_log, semVars,
                   kwVars, synthVars, failed_calls, poolVars, otherSpecs>>

\* files_web: the producer starts after the web_search running event
LaunchProducer ==
    /\ pc = "F_launch"
    /\ producer' = "call"
    /\ pc' = "F_consume"
    /\ UNCHANGED <<mode, log, analysisVars, intelVars, graph_evidence, errors_log, semVars,
                   kwVars, chunk_queue, produced, synthesis_text_parts, web_sources,
                   failed_calls, poolVars, otherSpecs>>

(***************************************************************************)
(* _produce_chunks: the background thread reading the model's stream       *)
(***************************************************************************)
MaxStream ==
    1

producerFrame ==
    <<pc, mode, analysisVars, intelVars, graph_evidence, errors_log, semVars, kwVars,
      synthesis_text_parts, web_sources, poolVars, otherSpecs>>

\* what the except and finally clauses put: the error, then the sentinel
ErrorThenSentinel ==
    <<[tag |-> "error", val |-> 0], [tag |-> "sentinel", val |-> 0]>>

\* generate_content_stream(**kwargs)
ProducerCall ==
    /\ producer = "call"
    /\ log' = Append(log, Call("generate_content_stream", "synthesis_prompt", "synthesis"))
    /\ \/ /\ producer' = "stream"
          /\ UNCHANGED <<chunk_queue, failed_calls>>
       \/ /\ chunk_queue' = chunk_queue \o ErrorThenSentinel
          /\ failed_calls' = failed_calls \cup {"synthesis"}
          /\ producer' = "exited"
    /\ UNCHANGED <<produced, producerFrame>>

\* one chunk of the stream: its text is queued unless empty, then its grounding
ProducerChunk ==
    /\ producer = "stream"
    /\ produced < stream_cap
    /\ produced' = produced + 1
    /\ \E hasText \in BOOLEAN, hasGrounding \in BOOLEAN :
          /\ hasGrounding => mode = "files_web"
          /\ chunk_queue' = chunk_queue
                \o (IF hasText THEN <<[tag |-> "text", val |-> produced']>> ELSE <<>>)
                \o (IF hasGrounding THEN <<[tag |-> "grounding", val |-> 1]>> ELSE <<>>)
    /\ UNCHANGED <<log, producer, failed_calls, producerFrame>>

\* the stream raises while it is read
ProducerStreamError ==
    /\ producer = "stream"
    /\ chunk_queue' = chunk_queue \o ErrorThenSentinel
    /\ failed_calls' = failed_calls \cup {"synthesis"}
    /\ producer' = "exited"
    /\ UNCHANGED <<log, produced, producerFrame>>

\* a producer that returns without the sentinel
EndOfStreamMissing ==
    <<>>

\* finally: chunk_queue.put(None), when nothing was raised
EndOfStream ==
    <<[tag |-> "sentinel", val |-> 0]>>

\* the stream ends
ProducerStreamEnd ==
    /\ producer = "stream"
    /\ chunk_queue' = chunk_queue \o EndOfStream
    /\ producer' = "exited"
    /\ UNCHANGED <<log, produced, failed_calls, producerFrame>>

(***************************************************************************)
(* Phase F: the consumer loop and what follows it                          *)
(***************************************************************************)
consumerFrame ==
    <<mode, analysisVars, intelVars, graph_evidence, errors_log, semVars, kwVars,
      producer, produced, failed_calls, poolVars, otherSpecs>>

\* a queue that hands out the item put last
QueueGetNewest(q) ==
    [item |-> q[Len(q)], rest |-> SubSeq(q, 1, Len(q) - 1)]

\* queue.Queue.get: the item put first, and the queue without it
QueueGet(q) ==
    [item |-> Head(q), rest |-> Tail(q)]

\* item = await asyncio.to_thread(chunk_queue.get), and the loop body
ConsumeItem ==
    /\ pc = "F_consume"
    /\ chunk_queue # <<>>
    /\ chunk_queue' = QueueGet(chunk_queue).rest
    /\ LET item == QueueGet(chunk_queue).item
       IN  CASE item.tag = "sentinel" ->
                  /\ pc' = "F_join"
                  /\ UNCHANGED <<log, synthesis_text_parts, web_sources>>
             [] item.tag = "error" ->
                  /\ Emit(Event("text", "", "", "generation_error", "synthesis"))
                  /\ pc' = "F_failed"
                  /\ UNCHANGED <<synthesis_text_parts, web_sources>>
             [] item.tag = "grounding" ->
                  /\ web_sources' = Append(web_sources, item.val)
                  /\ UNCHANGED <<pc, log, synthesis_text_parts>>
             [] item.tag = "text" ->
                  /\ synthesis_text_parts' = Append(synthesis_text_parts, item.val)
                  /\ Emit(Event("text", "", "", item.val, "synthesis"))
                  /\ UNCHANGED <<pc, web_sources>>
    /\ UNCHANGED consumerFrame

\* a tail that goes from the synthesis status straight to the follow-ups
AfterSynthesisStatusSkipsSources ==
    "F_followups"

\* what follows the terminal event of the synthesis: the web search part in
\* files_web mode, else the sources
AfterSynthesisStatus ==
    IF mode = "files_web" THEN "F_web" ELSE "F_sources"

\* await producer, then the terminal event of a generation that did not fail
JoinProducer ==
    /\ pc = "F_join"
    /\ producer = "exited"
    /\ Emit(StepStatus("synthesis", "done", ""))
    /\ pc' = AfterSynthesisStatus
    /\ UNCHANGED <<chunk_queue, synthesis_text_parts, web_sources, consumerFrame>>

SynthesisFailedStatus ==
    /\ pc = "F_failed"
    /\ Emit(StepStatus("synthesis", "error", "generation_failed"))
    /\ pc' = AfterSynthesisStatus
    /\ UNCHANGED <<chunk_queue, synthesis_text_parts, web_sources, consumerFrame>>

WebSearchDone ==
    /\ pc = "F_web"
    /\ Emit(Event("step_status", "web_search", "done", "", "synthesis"))
    /\ pc' = IF web_sources # <<>> THEN "F_web_sources" ELSE "F_sources"
    /\ UNCHANGED <<chunk_queue, synthesis_text_parts, web_sources, consumerFrame>>

WebSources ==
    /\ pc = "F_web_sources"
    /\ Emit(Event("web_sources", "", "", "", "synthesis"))
    /\ pc' = "F_sources"
    /\ UNCHANGED <<chunk_queue, synthesis_text_parts, web_sources, consumerFrame>>

Sources ==
    /\ pc = "F_sources"
    /\ Emit(Event("sources", "", "", "", "synthesis"))
    /\ pc' = "F_followups"
    /\ UNCHANGED <<chunk_queue, synthesis_text_parts, web_sources, consumerFrame>>

\* follow-up generation: the event is yielded only for a JSON list
FollowUps ==
    /\ pc = "F_followups"
    /\ \/ /\ log' = log \o <<Call("generate_content", "followup", "synthesis"),
                             Event("follow_ups", "", "", "", "synthesis")>>
          /\ pc' = "F_done"
       \/ /\ log' = log \o <<Call("generate_content", "followup", "synthesis"),
                             Event("done", "", "", "", "synthesis")>>
          /\ pc' = "finished"
    /\ UNCHANGED <<chunk_queue, synthesis_text_parts, web_sources, consumerFrame>>

Done ==
    /\ pc = "F_done"
    /\ Emit(Event("done", "", "", "", "synthesis"))
    /\ pc' = "finished"
    /\ UNCHANGED <<chunk_queue, synthesis_text_parts, web_sources, consumerFrame>>

(***************************************************************************)
(* run_investigation: the outermost except                                 *)
(***************************************************************************)
DriverCrashText ==
    /\ pc = "crash"
    /\ Emit(Event("text", "", "", "pipeline_error", "driver"))
    /\ pc' = "crash_done"
    /\ UNCHANGED <<chunk_queue, synthesis_text_parts, web_sources, consumerFrame>>

\* a handler that yields the error text only
CrashTailNoDone ==
    <<>>

\* the events the handler yields after the error text
CrashTail ==
    <<Event("done", "", "", "", "driver")>>

DriverCrashDone ==
    /\ pc = "crash_done"
    /\ log' = log \o CrashTail
    /\ pc' = "finished"
    /\ UNCHANGED <<chunk_queue, synthesis_text_parts, web_sources, consumerFrame>>

(***************************************************************************)
(* Specification of the pipeline                                           *)
(***************************************************************************)
ResolveIdle ==
    /\ r_pc = "off"
    /\ r_nodes = <<>>
    /\ r_name = <<>>
    /\ r_result = <<>>

PathsIdle ==
    /\ f_pc = "off"
    /\ f_edges = <<>>
    /\ f_start = ""
    /\ f_end = ""
    /\ f_max_hops = 0
    /\ f_max_paths = 0
    /\ f_queue = <<>>
    /\ f_visited_paths = <<>>

NarrativeIdle ==
    /\ n_pc = "off"
    /\ n_graph = [nodes |-> <<>>, edges |-> <<>>]
    /\ n_name_a = <<>>
    /\ n_name_b = <<>>
    /\ n_id_a = <<>>
    /\ n_id_b = <<>>
    /\ n_result = [kind |-> "none"]

DedupIdle ==
    /\ s_nodes = <<>>
    /\ s_edges = <<>>
    /\ d_pc = "off"
    /\ d_client = FALSE
    /\ d_raw_nodes = <<>>
    /\ d_merged = <<>>
    /\ d_remap = <<>>
    /\ d_heuristic_removed = 0
    /\ d_gemini_merges = 0
    /\ d_todo = {}
    /\ d_pair = <<>>
    /\ d_self_loop_ids = {}
    /\ d_dup_edge_ids = {}
    /\ d_reports = <<>>
    /\ d_batch = 1
    /\ d_all_merge_groups = <<>>
    /\ d_duplicate_ids = <<>>
    /\ d_chunks = <<>>
    /\ d_failed_batches = {}
    /\ d_store0 = [nodes |-> <<>>, edges |-> <<>>]
    /\ d_interrupted = [done |-> FALSE, groups |-> <<>>]
    /\ a_pc = "off"
    /\ a_new_nodes = <<>>
    /\ a_new_edges = <<>>

\* graph_store.load() when the store cannot be read
EmptyGraph ==
    [nodes |-> <<>>, edges |-> <<>>]

QueryIdle ==
    /\ q_pc = "off"
    /\ q_query = <<>>
    /\ q_store = EmptyGraph
    /\ q_match = <<>>
    /\ q_graph_context = <<>>
    /\ q_response = [kind |-> "none", full_context |-> <<>>]

SearchIdle ==
    /\ p_pc = "off"
    /\ p_matches = <<>>
    /\ p_rerank_fn = "None"
    /\ p_rerank_top_n = 0
    /\ p_candidates = <<>>
    /\ p_rerank_calls = 0
    /\ p_rerank_raised = FALSE
    /\ p_outcome = "none"

\* no request handler other than the investigation is running
\* no investigate request is being handled: the module's three clients are there
HandlerIdle ==
    /\ h_pc = "off"
    /\ h_endpoint = "investigate"
    /\ h_index = TRUE
    /\ h_client = TRUE
    /\ h_supabase = TRUE
    /\ h_entity_id = FALSE
    /\ h_case_context = "None"
    /\ h_store_calls = <<>>
    /\ h_response = [kind |-> "none", status |-> 0, error |-> ""]

EndpointsIdle ==
    /\ QueryIdle
    /\ SearchIdle
    /\ HandlerIdle

BfsIdle ==
    /\ b_pc = "off"
    /\ b_edges = <<>>
    /\ b_start = ""
    /\ b_max_hops = 0
    /\ b_max_edges = 0
    /\ b_hop = 0
    /\ b_frontier = <<>>
    /\ b_idx = 0
    /\ b_next_frontier = <<>>
    /\ b_visited_nodes = {}
    /\ b_collected_edges = <<>>
    /\ b_seen_edge_ids = {}
    /\ b_fetches = <<>>
    /\ b_result = <<>>

UploadIdle ==
    /\ u_pc = "off"
    /\ u_doc = <<>>
    /\ u_page = 1
    /\ u_pos = 1
    /\ u_i = 0
    /\ u_attempt = 0
    /\ u_batch = <<>>
    /\ u_calls = <<>>
    /\ u_upserts = <<>>

\* nothing outside the session and the two search functions is running
ExtIdle ==
    /\ NarrativeIdle
    /\ DedupIdle
    /\ EndpointsIdle
    /\ BfsIdle
    /\ UploadIdle

SessionInit ==
    /\ log = <<>>
    /\ primary_entity = <<>>
    /\ secondary_entities = JList(<<>>)
    /\ reformulated_queries = JList(<<>>)
    /\ key_terms = JList(<<>>)
    /\ entity_intel = NoIntel
    /\ graph_evidence = <<>>
    /\ discovered_entities = <<>>
    /\ all_context_chunks = <<>>
    /\ seen_texts = {}
    /\ errors_log = <<>>
    /\ errors = <<>>
    /\ pass_count = 0
    /\ kw_idx = 0
    /\ keyword_results = <<>>
    /\ chunk_queue = <<>>
    /\ producer = "idle"
    /\ produced = 0
    /\ synthesis_text_parts = <<>>
    /\ web_sources = <<>>
    /\ failed_calls = {}
    /\ stream_cap = MaxStream

Init ==
    /\ pc = "start"
    /\ mode \in {"files_only", "files_web"}
    /\ SessionInit
    /\ ResolveIdle
    /\ PathsIdle
    /\ ExtIdle

Next ==
    \/ StartQueryAnalysis
    \/ QueryAnalysis
    \/ EntityIntelEntry
    \/ EntityIntelLookup
    \/ GraphTraversalEntry
    \/ GraphTraversalCollect
    \/ SemanticStart
    \/ SemanticPass1
    \/ SemanticPass2
    \/ SemanticPass3
    \/ KeywordStart
    \/ KeywordVectorQuery
    \/ KeywordRelational
    \/ SynthesisStart
    \/ SynthesisContext
    \/ NoContextStatus
    \/ NoContextDone
    \/ LaunchProducer
    \/ ProducerCall
    \/ ProducerChunk
    \/ ProducerStreamError
    \/ ProducerStreamEnd
    \/ ConsumeItem
    \/ JoinProducer
    \/ SynthesisFailedStatus
    \/ WebSearchDone
    \/ WebSources
    \/ Sources
    \/ FollowUps
    \/ Done
    \/ DriverCrashText
    \/ DriverCrashDone

Spec ==
    Init /\ [][Next]_vars

(***************************************************************************)
(* Specification of the chunk pool: _add_chunks applied to any sequence    *)
(* of result batches, whichever pass or phase hands them over              *)
(***************************************************************************)
SessionIdle ==
    /\ pc = "off"
    /\ mode = "files_only"
    /\ SessionInit

\* the rest of a text that is longer than the signature prefix
LongTail ==
    [i \in 1..(SigPrefixLen - 4) |-> "x"] \o <<"y", "z">>

\* "a b" with blanks around it and a tab inside
ChunkABTab ==
    [text |-> <<" ","a","\t","b"," ">>, filename |-> "f3", page |-> 1]

\* "a b" followed by LongTail: one character more than the signature prefix
ChunkLong ==
    [text |-> <<"a"," ","b">> \o LongTail, filename |-> "f4", page |-> 1]

\* the same text with two blanks after the "a"
ChunkLong2 ==
    [text |-> <<"a"," "," ","b">> \o LongTail, filename |-> "f5", page |-> 1]

\* a list element without a text field
NoTextItem ==
    [filename |-> "f6", page |-> 1]

ChunkCatalog ==
    {ChunkAB, ChunkAB2, ChunkABTab, ChunkC, ChunkLong, ChunkLong2, NoTextItem}

MaxBatch ==
    2

Batches ==
    UNION {[1..n -> ChunkCatalog] : n \in 1..MaxBatch}

\* _add_chunks(chunks) on the session's pool
AddChunksCall ==
    /\ pc = "off"
    /\ \E batch \in Batches : AddChunks(batch)
    /\ UNCHANGED <<sessionVars, otherSpecs>>

InitChunks ==
    /\ SessionIdle
    /\ ResolveIdle
    /\ PathsIdle
    /\ ExtIdle

NextChunks ==
    AddChunksCall

SpecChunks ==
    InitChunks /\ [][NextChunks]_vars

(***************************************************************************)
(* find_entity_id                                                          *)
(***************************************************************************)
None ==
    <<>>

\* a returned id
Some(x) ==
    <<x>>

\* re.sub(r'[^a-z0-9\s]', '', s.lower()).strip()
Normalize(s) ==
    LET lowered == [i \in DOMAIN s |-> ToLower(s[i])]
        kept == {LowerCase[i] : i \in DOMAIN LowerCase} \cup Digits \cup Whitespace
    IN  Strip(SelectSeq(lowered, LAMBDA c : c \in kept))

\* s.replace(" ", "_")
ReplaceSpaces(s) ==
    [i \in DOMAIN s |-> IF s[i] = " " THEN "_" ELSE s[i]]

Node(id, label, aliases) ==
    [id |-> id, label |-> label, aliases |-> aliases]

\* _normalize(label) == name_norm
MatchesExact(n, name_norm) ==
    Normalize(n.label) = name_norm

\* name_norm in label_norm or label_norm in name_norm
MatchesPartial(n, name_norm) ==
    LET label_norm == Normalize(n.label)
    IN  IsSubstring(name_norm, label_norm) \/ IsSubstring(label_norm, name_norm)

\* some alias: _normalize(alias) == name_norm or name_norm in _normalize(alias)
MatchesAlias(n, name_norm) ==
    \E k \in DOMAIN n.aliases :
        \/ Normalize(n.aliases[k]) = name_norm
        \/ IsSubstring(name_norm, Normalize(n.aliases[k]))

\* _normalize(n["id"]) == name_norm.replace(" ", "_")
MatchesId(n, name_norm) ==
    Normalize(n.id) = ReplaceSpaces(name_norm)

\* the nodes of the list, by index, that a loop's test accepts
ExactHits(nodes, name_norm) ==
    {i \in DOMAIN nodes : MatchesExact(nodes[i], name_norm)}

PartialHits(nodes, name_norm) ==
    {i \in DOMAIN nodes : MatchesPartial(nodes[i], name_norm)}

AliasHits(nodes, name_norm) ==
    {i \in DOMAIN nodes : MatchesAlias(nodes[i], name_norm)}

IdHits(nodes, name_norm) ==
    {i \in DOMAIN nodes : MatchesId(nodes[i], name_norm)}

\* what a loop returns: the id of the first node it accepts, if any
FirstMatch(nodes, hits) ==
    IF hits = {} THEN None
    ELSE Some(nodes[CHOOSE i \in hits : \A j \in hits : i <= j].id)

\* the four loops with the alias loop placed before the partial-label loop
FindEntityIdAliasBeforePartial(nodes, name) ==
    LET name_norm == Normalize(name)
        exact == FirstMatch(nodes, ExactHits(nodes, name_norm))
        partial == FirstMatch(nodes, PartialHits(nodes, name_norm))
        alias == FirstMatch(nodes, AliasHits(nodes, name_norm))
        byid == FirstMatch(nodes, IdHits(nodes, name_norm))
    IN  IF exact # None THEN exact
        ELSE IF alias # None THEN alias
        ELSE IF partial # None THEN partial
        ELSE byid

\* four loops over the whole node list, each returning at its first match
find_entity_id(nodes, name) ==
    LET name_norm == Normalize(name)
        exact == FirstMatch(nodes, ExactHits(nodes, name_norm))
        partial == FirstMatch(nodes, PartialHits(nodes, name_norm))
        alias == FirstMatch(nodes, AliasHits(nodes, name_norm))
        byid == FirstMatch(nodes, IdHits(nodes, name_norm))
    IN  IF exact # None THEN exact
        ELSE IF partial # None THEN partial
        ELSE IF alias # None THEN alias
        ELSE byid

NodeJane ==
    Node(<<"j","a","n","e","_","d","o","e">>, <<"J","a","n","e"," ","D","o","e">>, <<<<"J","."," ","D","o","e">>>>)

NodeJane2 ==
    Node(<<"j","a","n","e","_","d","o","e","_","2">>, <<"Z","e","d">>, <<>>)

NodeSmith ==
    Node(<<"n","3">>, <<"J","a","n","e"," ","D","o","e"," ","S","m","i","t","h">>, <<>>)

NodeBob ==
    Node(<<"b","o","b">>, <<"B","o","b">>, <<<<"J","a","n","e"," ","D","o","e">>>>)

NodeLady ==
    Node(<<"x","1">>, <<"M","r"," ","X">>, <<<<"L","a","d","y"," ","J","a","n","e"," ","D","o","e">>>>)

NodeQ ==
    Node(<<"j","a","n","e","d","o","e">>, <<"Q">>, <<>>)

\* a node whose label has no letter or digit
NodeAnon ==
    Node(<<"n","0">>, <<"?","?">>, <<>>)

NodeCatalog ==
    {NodeJane, NodeJane2, NodeSmith, NodeBob, NodeLady, NodeQ, NodeAnon}

QueryJaneDoe ==
    <<"j","a","n","e"," ","d","o","e">>

QueryJaneDoe2 ==
    <<"j","a","n","e"," ","d","o","e"," ","2">>

NameChoices ==
    {QueryJaneDoe, <<"J","a","n","e"," ","D","o","e","!">>, QueryJaneDoe2, <<"j","a","n","e","d","o","e">>, <<"d","o","e">>, <<"z","z","z">>,
     <<"?","?","?">>}

MaxNodes ==
    3

\* node lists without repetition, in every order
NodeLists ==
    {l \in UNION {[1..n -> NodeCatalog] : n \in 1..MaxNodes} :
        \A i, j \in DOMAIN l : i # j => l[i] # l[j]}

\* find_entity_id(graph_data, name)
FindEntityIdCall ==
    /\ r_pc = "call"
    /\ r_result' = find_entity_id(r_nodes, r_name)
    /\ r_pc' = "returned"
    /\ UNCHANGED <<r_nodes, r_name, sessionVars, poolVars, pathVars, extVars>>

InitResolve ==
    /\ r_pc = "call"
    /\ r_nodes \in NodeLists
    /\ r_name \in NameChoices
    /\ r_result = None
    /\ SessionIdle
    /\ PathsIdle
    /\ ExtIdle

NextResolve ==
    FindEntityIdCall

SpecResolve ==
    InitResolve /\ [][NextResolve]_vars

(***************************************************************************)
(* find_paths                                                              *)
(***************************************************************************)
GraphNodes ==
    {"A", "B", "C", "D"}

Edge(s, t) ==
    [source |-> s, target |-> t]

\* the edge slot of a path's first element
NoEdge ==
    [source |-> "None", target |-> "None"]

\* adj.setdefault(a, {}).setdefault(b, []).append(edge): neighbours keep the
\* order in which they were first inserted
AddNeighbor(list, nb, edge) ==
    IF \E i \in DOMAIN list : list[i].neighbor = nb
    THEN LET i == CHOOSE k \in DOMAIN list : list[k].neighbor = nb
         IN  [list EXCEPT ![i].edges = Append(@, edge)]
    ELSE Append(list, [neighbor |-> nb, edges |-> <<edge>>])

\* the ids that occur as source or target of an edge
EdgeEnds(edges) ==
    {edges[i].source : i \in DOMAIN edges} \cup {edges[i].target : i \in DOMAIN edges}

RECURSIVE BuildAdjacencyFrom(_, _)
BuildAdjacencyFrom(edges, adj) ==
    IF edges = <<>> THEN adj
    ELSE LET e == Head(edges)
             fwd == [adj.nbrs EXCEPT ![e.source] = AddNeighbor(@, e.target, e)]
             both == [fwd EXCEPT ![e.target] = AddNeighbor(@, e.source, e)]
         IN  BuildAdjacencyFrom(Tail(edges),
                                [keys |-> adj.keys \cup {e.source, e.target},
                                 nbrs |-> both])

\* _build_adjacency: keys are the ids that occur in some edge
BuildAdjacency(edges) ==
    BuildAdjacencyFrom(edges, [keys |-> {}, nbrs |-> [n \in EdgeEnds(edges) |-> <<>>]])

PathNodes(path) ==
    {path[i].node : i \in DOMAIN path}

\* len(path) - 1 > max_hops, read one hop too early
TooLongOffByOne(path, max_hops) ==
    Len(path) - 1 >= max_hops

\* len(path) - 1 > max_hops
TooLong(path, max_hops) ==
    Len(path) - 1 > max_hops

\* while queue and len(visited_paths) < max_paths
LoopContinues ==
    f_queue # <<>> /\ Len(f_visited_paths) < f_max_paths

\* the paths appended to the queue when a neighbour already on the path is taken too
ExpansionRevisiting(item, adj) ==
    LET nbrs == adj.nbrs[item.current]
    IN  [i \in DOMAIN nbrs |->
            [current |-> nbrs[i].neighbor,
             path |-> Append(item.path,
                             [node |-> nbrs[i].neighbor, edge |-> nbrs[i].edges[1]])]]

\* the paths appended to the queue for the neighbours of the dequeued node
Expansion(item, adj) ==
    LET nbrs == adj.nbrs[item.current]
        fresh == SelectSeq(nbrs, LAMBDA nb : nb.neighbor \notin PathNodes(item.path))
    IN  [i \in DOMAIN fresh |->
            [current |-> fresh[i].neighbor,
             path |-> Append(item.path,
                             [node |-> fresh[i].neighbor, edge |-> fresh[i].edges[1]])]]

\* a queue whose new paths are taken before the older ones
EnqueueInFront(queue, items) ==
    items \o queue

\* queue.append, for every new path in turn: the new paths wait behind the older
Enqueue(queue, items) ==
    queue \o items

\* entry: build the adjacency, return [] for an id without edges, else seed the queue
FindPathsEnter ==
    /\ f_pc = "call"
    /\ LET adj == BuildAdjacency(f_edges)
       IN  IF f_start \notin adj.keys \/ f_end \notin adj.keys
           THEN /\ f_pc' = "returned"
                /\ f_queue' = <<>>
           ELSE /\ f_pc' = "loop"
                /\ f_queue' = <<[current |-> f_start,
                                 path |-> <<[node |-> f_start, edge |-> NoEdge]>>]>>
    /\ f_visited_paths' = <<>>
    /\ UNCHANGED <<f_edges, f_start, f_end, f_max_hops, f_max_paths,
                   sessionVars, poolVars, resolveVars, extVars>>

\* one iteration: the dequeued path exceeds max_hops
DequeueTooLong ==
    /\ f_pc = "loop"
    /\ LoopContinues
    /\ TooLong(Head(f_queue).path, f_max_hops)
    /\ f_queue' = Tail(f_queue)
    /\ UNCHANGED <<f_pc, f_visited_paths, f_edges, f_start, f_end, f_max_hops,
                   f_max_paths, sessionVars, poolVars, resolveVars, extVars>>

\* one iteration: the dequeued path has reached end_id
DequeueGoal ==
    /\ f_pc = "loop"
    /\ LoopContinues
    /\ ~TooLong(Head(f_queue).path, f_max_hops)
    /\ Head(f_queue).current = f_end /\ Len(Head(f_queue).path) > 1
    /\ f_visited_paths' = Append(f_visited_paths, Head(f_queue).path)
    /\ f_queue' = Tail(f_queue)
    /\ UNCHANGED <<f_pc, f_edges, f_start, f_end, f_max_hops, f_max_paths,
                   sessionVars, poolVars, resolveVars, extVars>>

\* one iteration: the dequeued path is extended by every unvisited neighbour
DequeueExpand ==
    /\ f_pc = "loop"
    /\ LoopContinues
    /\ ~TooLong(Head(f_queue).path, f_max_hops)
    /\ ~(Head(f_queue).current = f_end /\ Len(Head(f_queue).path) > 1)
    /\ f_queue' = Enqueue(Tail(f_queue), Expansion(Head(f_queue), BuildAdjacency(f_edges)))
    /\ UNCHANGED <<f_pc, f_visited_paths, f_edges, f_start, f_end, f_max_hops,
                   f_max_paths, sessionVars, poolVars, resolveVars, extVars>>

\* return visited_paths
FindPathsReturn ==
    /\ f_pc = "loop"
    /\ ~LoopContinues
    /\ f_pc' = "returned"
    /\ UNCHANGED <<f_queue, f_visited_paths, f_edges, f_start, f_end, f_max_hops,
                   f_max_paths, sessionVars, poolVars, resolveVars, extVars>>

\* the node pairs of the graphs, in the order in which their edges are stored
NodePairs ==
    <<<<"A", "B">>, <<"B", "C">>, <<"C", "D">>, <<"A", "C">>, <<"B", "D">>, <<"A", "D">>>>

\* per pair: no edge, an edge stored source-to-target, or stored target-to-source
RECURSIVE EdgesOf(_, _)
EdgesOf(choice, i) ==
    IF i > Len(NodePairs) THEN <<>>
    ELSE LET p == NodePairs[i]
             here == CASE choice[i] = "none" -> <<>>
                       [] choice[i] = "forward" -> <<Edge(p[1], p[2])>>
                       [] choice[i] = "backward" -> <<Edge(p[2], p[1])>>
         IN  here \o EdgesOf(choice, i + 1)

\* edges stored after the others: a second edge between A and B, a self-loop
ExtraEdges ==
    {<<>>, <<Edge("B", "A")>>, <<Edge("A", "A")>>}

EdgeLists ==
    {EdgesOf(choice, 1) \o extra :
        choice \in [DOMAIN NodePairs -> {"none", "forward", "backward"}],
        extra \in ExtraEdges}

MaxHopsBound ==
    4

MaxPathsBound ==
    3

InitPaths ==
    /\ f_pc = "call"
    /\ f_edges \in EdgeLists
    /\ f_start = "A"
    /\ f_end = "D"
    /\ f_max_hops \in 1..MaxHopsBound
    /\ f_max_paths \in 1..MaxPathsBound
    /\ f_queue = <<>>
    /\ f_visited_paths = <<>>
    /\ SessionIdle
    /\ ResolveIdle
    /\ ExtIdle

NextPaths ==
    \/ FindPathsEnter
    \/ DequeueTooLong
    \/ DequeueGoal
    \/ DequeueExpand
    \/ FindPathsReturn

SpecPaths ==
    InitPaths /\ [][NextPaths]_vars

(***************************************************************************)
(* find_paths_narrative, and find_paths called with any pair of ids        *)
(***************************************************************************)
DefaultMaxHops ==
    4

DefaultMaxPaths ==
    3

IdAcme ==
    <<"a","c","m","e">>

IdJohn ==
    <<"j","o","h","n">>

IdMid ==
    <<"m","i","d">>

IdSolo ==
    <<"s","o","l","o">>

\* an id that no node and no edge of the graph carries
IdGhost ==
    <<"g","h","o","s","t">>

\* the nodes graph_store.load() returns: Solo has no edge in any of the graphs
StoredNodes ==
    <<Node(IdAcme, <<"A","c","m","e"," ","C","o","r","p">>, <<>>), Node(IdJohn, <<"J","o","h","n"," ","S","m","i","t","h">>, <<>>),
      Node(IdMid, <<"M","i","d"," ","C","o">>, <<>>), Node(IdSolo, <<"S","o","l","o">>, <<>>)>>

\* an edge as graph_store.load() formats it; predicate is data.predicate
StoredEdge(s, p, t) ==
    [source |-> s, target |-> t, predicate |-> p]

\* the edges a stored graph can hold, in stored order: the first two join the same
\* pair of nodes in opposite directions
StoredEdgePool ==
    <<StoredEdge(IdJohn, "sued", IdAcme), StoredEdge(IdAcme, "employed_by", IdJohn),
      StoredEdge(IdAcme, "owns", IdMid), StoredEdge(IdMid, "paid", IdJohn)>>

RECURSIVE Pick(_, _, _)
Pick(pool, keep, i) ==
    IF i > Len(pool) THEN <<>>
    ELSE (IF i \in keep THEN <<pool[i]>> ELSE <<>>) \o Pick(pool, keep, i + 1)

StoredGraphs ==
    {[nodes |-> StoredNodes, edges |-> Pick(StoredEdgePool, keep, 1)] :
        keep \in SUBSET DOMAIN StoredEdgePool}

EntityNames ==
    {<<"A","c","m","e"," ","C","o","r","p">>, <<"J","o","h","n"," ","S","m","i","t","h">>, <<"a","c","m","e">>, <<"S","o","l","o">>, <<"z","z","z">>}

\* not id: None, or an empty id
Falsy(id) ==
    id = None \/ id = Some(<<>>)

\* the same-entity test left out
SameEntityNever(id_a, id_b) ==
    FALSE

\* id_a == id_b
SameEntity(id_a, id_b) ==
    id_a = id_b

\* the label a step shows for a node id: node_map.get(node_id, node_id)
LabelOf(nodes, id) ==
    IF \E i \in DOMAIN nodes : nodes[i].id = id
    THEN LET last == CHOOSE i \in DOMAIN nodes :
                         /\ nodes[i].id = id
                         /\ \A j \in DOMAIN nodes : nodes[j].id = id => j <= i
         IN  nodes[last].label
    ELSE id

\* a line that shows the edge as it is stored: source --[predicate]--> target
NarrativeStepAsStored(nodes, path, j) ==
    [from |-> LabelOf(nodes, path[j + 1].edge.source),
     predicate |-> path[j + 1].edge.predicate,
     to |-> LabelOf(nodes, path[j + 1].edge.target)]

\* one line of a path's narrative: label --[predicate]--> label
NarrativeStep(nodes, path, j) ==
    [from |-> LabelOf(nodes, path[j].node),
     predicate |-> path[j + 1].edge.predicate,
     to |-> LabelOf(nodes, path[j + 1].node)]

NarrativeOf(nodes, paths) ==
    [i \in DOMAIN paths |->
        [j \in 1..(Len(paths[i]) - 1) |-> NarrativeStep(nodes, paths[i], j)]]

narrativeInputs ==
    <<n_graph, n_name_a, n_name_b>>

\* both names are resolved; the function returns a message or calls find_paths
NarrativeResolve ==
    /\ n_pc = "call"
    /\ LET id_a == find_entity_id(n_graph.nodes, n_name_a)
           id_b == find_entity_id(n_graph.nodes, n_name_b)
       IN  /\ n_id_a' = id_a
           /\ n_id_b' = id_b
           /\ IF Falsy(id_a) \/ Falsy(id_b)
              THEN /\ n_result' = [kind |-> "could_not_find",
                                   missing |-> (IF Falsy(id_a) THEN <<n_name_a>> ELSE <<>>)
                                               \o (IF Falsy(id_b) THEN <<n_name_b>> ELSE <<>>)]
                   /\ n_pc' = "returned"
                   /\ UNCHANGED pathVars
              ELSE IF SameEntity(id_a, id_b)
              THEN /\ n_result' = [kind |-> "same_entity"]
                   /\ n_pc' = "returned"
                   /\ UNCHANGED pathVars
              ELSE /\ n_pc' = "find_paths"
                   /\ f_pc' = "call"
                   /\ f_edges' = n_graph.edges
                   /\ f_start' = id_a[1]
                   /\ f_end' = id_b[1]
                   /\ f_max_hops' = DefaultMaxHops
                   /\ f_max_paths' = DefaultMaxPaths
                   /\ UNCHANGED <<n_result, f_queue, f_visited_paths>>
    /\ UNCHANGED <<narrativeInputs, sessionVars, poolVars, resolveVars, writerVars, endpointVars,
                   bfsVars, uploadVars>>

\* find_paths has returned: the no-connection message, or one narrative per path
NarrativeFormat ==
    /\ n_pc = "find_paths"
    /\ f_pc = "returned"
    /\ n_result' = IF f_visited_paths = <<>>
                   THEN [kind |-> "no_connection"]
                   ELSE [kind |-> "paths",
                         paths |-> NarrativeOf(n_graph.nodes, f_visited_paths)]
    /\ n_pc' = "returned"
    /\ UNCHANGED <<narrativeInputs, n_id_a, n_id_b, pathVars, sessionVars, poolVars,
                   resolveVars, writerVars, endpointVars, bfsVars, uploadVars>>

\* find_paths_narrative(graph_data, entity_a_name, entity_b_name)
InitNarrativeCall ==
    /\ n_pc = "call"
    /\ n_graph \in StoredGraphs
    /\ n_name_a \in EntityNames
    /\ n_name_b \in EntityNames
    /\ n_id_a = None
    /\ n_id_b = None
    /\ n_result = [kind |-> "none"]
    /\ PathsIdle

\* find_paths(graph_data, start_id, end_id, max_hops), with any two ids
InitFindPathsCall ==
    /\ NarrativeIdle
    /\ f_pc = "call"
    /\ \E g \in StoredGraphs : f_edges = g.edges
    /\ f_start \in {IdAcme, IdJohn, IdSolo, IdGhost}
    /\ f_end \in {IdAcme, IdJohn, IdSolo, IdGhost}
    /\ f_max_hops \in {1, DefaultMaxHops}
    /\ f_max_paths = DefaultMaxPaths
    /\ f_queue = <<>>
    /\ f_visited_paths = <<>>

InitNarrative ==
    /\ InitNarrativeCall \/ InitFindPathsCall
    /\ SessionIdle
    /\ ResolveIdle
    /\ BfsIdle
    /\ UploadIdle
    /\ DedupIdle
    /\ EndpointsIdle

NextNarrative ==
    \/ NarrativeResolve
    \/ FindPathsEnter
    \/ DequeueTooLong
    \/ DequeueGoal
    \/ DequeueExpand
    \/ FindPathsReturn
    \/ NarrativeFormat

SpecNarrative ==
    InitNarrative /\ [][NextNarrative]_vars

(***************************************************************************)
(* deduplicate_graph: the store, Pass 1 and Pass 2                         *)
(***************************************************************************)
\* str.upper(), character by character
ToUpper(c) ==
    IF \E i \in DOMAIN LowerCase : LowerCase[i] = c
    THEN UpperCase[CHOOSE i \in DOMAIN LowerCase : LowerCase[i] = c]
    ELSE c

Upper(s) ==
    [i \in DOMAIN s |-> ToUpper(s[i])]

\* a row of the nodes table; aliases is the set its sorted list holds
NodeRow(id, label, type, description, aliases) ==
    [id |-> id, label |-> label, type |-> type, description |-> description,
     aliases |-> aliases]

\* a row of the edges table
EdgeRow(id, source, predicate, target) ==
    [id |-> id, source |-> source, predicate |-> predicate, target |-> target]

\* a null type column
NullType ==
    <<>>

\* (n.get("type") or "UNKNOWN").upper()
TypeKey(n) ==
    Upper(IF n.type = NullType THEN <<"U","N","K","N","O","W","N">> ELSE n.type)

\* def normalize(s): re.sub(r'[^a-z0-9\s]', '', s.lower()).strip()
normalize(s) ==
    LET lowered == [i \in DOMAIN s |-> ToLower(s[i])]
        kept == {LowerCase[i] : i \in DOMAIN LowerCase} \cup Digits \cup Whitespace
    IN  Strip(SelectSeq(lowered, LAMBDA c : c \in kept))

\* key = (normalize(label), type.upper())
GroupKey(n) ==
    <<normalize(n.label), TypeKey(n)>>

\* len(e.get("description", "") or "")
DescLen(n) ==
    Len(n.description)

\* the key of every row, in list order
GroupKeys(rows) ==
    [i \in DOMAIN rows |-> GroupKey(rows[i])]

\* groups[key]: the rows of a list that have the key of position i, in list order
GroupOf(rows, keys, i) ==
    LET members == {j \in DOMAIN rows : keys[j] = keys[i]}
    IN  [k \in 1..Cardinality(members) |->
            rows[CHOOSE j \in members : Cardinality({m \in members : m < j}) = k - 1]]

\* group.sort(key=..., reverse=True) then group[0], picking the last of equally
\* long descriptions
CanonicalOfLastOnTies(group) ==
    LET longest == {i \in DOMAIN group : \A j \in DOMAIN group : DescLen(group[j]) <= DescLen(group[i])}
    IN  group[CHOOSE i \in longest : \A j \in longest : j <= i]

\* group.sort(key=..., reverse=True) then group[0]: the sort is stable, so the
\* first of the rows with the longest description
CanonicalOf(group) ==
    LET longest == {i \in DOMAIN group : \A j \in DOMAIN group : DescLen(group[j]) <= DescLen(group[i])}
    IN  group[CHOOSE i \in longest : \A j \in longest : i <= j]

\* all_aliases: every member's label and aliases, minus the canonical's label
GroupAliases(group) ==
    (UNION {{group[i].label} \cup group[i].aliases : i \in DOMAIN group})
        \ {CanonicalOf(group).label}

\* the canonical row of a group, carrying the group's aliases
MergedRow(group) ==
    [CanonicalOf(group) EXCEPT !.aliases = GroupAliases(group)]

\* the positions at which a key occurs for the first time: the groups in dict order
FirstOfKey(keys) ==
    {i \in DOMAIN keys : \A j \in 1..(i - 1) : keys[j] # keys[i]}

RECURSIVE MergedFrom(_, _, _)
MergedFrom(rows, keys, i) ==
    IF i > Len(rows) THEN <<>>
    ELSE (IF i \in FirstOfKey(keys)
          THEN <<MergedRow(GroupOf(rows, keys, i))>>
          ELSE <<>>) \o MergedFrom(rows, keys, i + 1)

\* Pass 1: merged_entities, in dict order
Pass1Merged(rows) ==
    LET keys == GroupKeys(rows)
    IN  MergedFrom(rows, keys, 1)

RowIds(rows) ==
    {rows[i].id : i \in DOMAIN rows}

\* Pass 1: id_remap, every member id to its group's canonical id
Pass1Remap(rows) ==
    LET keys == GroupKeys(rows)
    IN  [id \in RowIds(rows) |->
            CanonicalOf(GroupOf(rows, keys, CHOOSE i \in DOMAIN rows : rows[i].id = id)).id]

\* the row of a list with the given id
RowById(rows, id) ==
    rows[CHOOSE i \in DOMAIN rows : rows[i].id = id]

\* list.sort(key=..., reverse=True): stable, longest description first
RECURSIVE SortByDescLen(_, _)
SortByDescLen(ids, rows) ==
    IF ids = <<>> THEN <<>>
    ELSE LET best == CHOOSE i \in DOMAIN ids :
                         /\ \A j \in DOMAIN ids :
                                DescLen(RowById(rows, ids[j])) <= DescLen(RowById(rows, ids[i]))
                         /\ \A j \in 1..(i - 1) :
                                DescLen(RowById(rows, ids[j])) < DescLen(RowById(rows, ids[i]))
             rest == [k \in 1..(Len(ids) - 1) |-> IF k < best THEN ids[k] ELSE ids[k + 1]]
         IN  <<ids[best]>> \o SortByDescLen(rest, rows)

\* the state Pass 2 works on; raised records an exception that ends the run
Pass2State(merged, remap, merges, raised) ==
    [merged |-> merged, remap |-> remap, merges |-> merges, raised |-> raised]

\* for other_id in valid_ids[1:]: pop the other row, fold it into the canonical row
\* (the object `canonical`, whether or not it is still in merged_entities) and
\* repoint the remap table
RECURSIVE MergeOthers(_, _, _, _)
MergeOthers(st, canonical, canonical_id, others) ==
    IF others = <<>> \/ st.raised THEN st
    ELSE LET other_id == Head(others)
         IN  IF other_id \notin RowIds(st.merged)
             THEN [st EXCEPT !.raised = TRUE]
             ELSE LET other == RowById(st.merged, other_id)
                      popped == SelectSeq(st.merged, LAMBDA n : n.id # other_id)
                      aliases == (canonical.aliases \cup {other.label} \cup other.aliases)
                                     \ {canonical.label}
                      folded == [canonical EXCEPT
                                    !.aliases = aliases,
                                    !.description = IF DescLen(other) > DescLen(canonical)
                                                    THEN other.description ELSE @]
                      merged == [i \in DOMAIN popped |->
                                    IF popped[i].id = canonical_id THEN folded ELSE popped[i]]
                      remap == [k \in DOMAIN st.remap |->
                                    IF k = other_id \/ st.remap[k] = other_id
                                    THEN canonical_id ELSE st.remap[k]]
                  IN  MergeOthers(Pass2State(merged, remap, st.merges + 1, FALSE),
                                  folded, canonical_id, Tail(others))

\* one merge group of the model's answer
ApplyMergeGroup(st, group) ==
    IF group.type # "list" \/ Len(group.items) < 2 THEN st
    ELSE LET valid_ids == SelectSeq(group.items, LAMBDA eid : eid \in RowIds(st.merged))
         IN  IF Len(valid_ids) < 2 THEN st
             ELSE LET sorted == SortByDescLen(valid_ids, st.merged)
                  IN  MergeOthers(st, RowById(st.merged, sorted[1]), sorted[1], Tail(sorted))

RECURSIVE ApplyMergeGroups(_, _)
ApplyMergeGroups(st, groups) ==
    IF groups = <<>> \/ st.raised THEN st
    ELSE ApplyMergeGroups(ApplyMergeGroup(st, Head(groups)), Tail(groups))

\* len(merged_entities) > 10
SemanticThreshold ==
    10

\* an answer of the text model to the merge prompt: the call or json.loads raises,
\* or res.text parses to a JSON value
ModelRaises ==
    [type |-> "raise", items |-> <<>>]

\* all_merge_groups after the batch: a failed call or a non-list answer adds nothing
MergeGroupsOf(answer) ==
    IF answer.type = "list" THEN answer.items ELSE <<>>

\* what the text model can answer to the merge prompt
ModelAnswers ==
    {ModelRaises,
     JNull,
     JList(<<>>),
     JList(<<JList(<<"john", "f1">>)>>),
     JList(<<JList(<<"f1", "f1", "f1">>)>>),
     JList(<<JList(<<"john", "john", "f1">>)>>),
     JList(<<JList(<<"john", "f1", "f2", "f3">>)>>),
     JList(<<JList(<<"john", "john_u">>), JNumber, JList(<<"f1">>)>>),
     JList(<<JList(<<"acme1", "f2", "nobody">>), JList(<<"f2", "f3">>)>>)}

(***************************************************************************)
(* deduplicate_graph: the run, one action per store operation              *)
(***************************************************************************)
\* everything a store operation of the run leaves alone
dedupFrame ==
    <<sessionVars, poolVars, resolveVars, pathVars, narrativeVars, endpointVars, bfsVars, uploadVars,
      addVars, d_client, d_store0, d_interrupted>>

\* remap_pairs: the entries of id_remap with old != new
RemapPairs(remap) ==
    {<<old, remap[old]>> : old \in {k \in DOMAIN remap : remap[k] # k}}

\* duplicate_ids
DuplicateIds(remap) ==
    {k \in DOMAIN remap : remap[k] # k}

\* what the endpoint answers: the counts and graph_store.load()
Report(merged, removed_nodes, removed_edges) ==
    [status |-> "ok", merged |-> merged, removed_nodes |-> removed_nodes,
     removed_edges |-> removed_edges, nodes |-> s_nodes, edges |-> s_edges]

\* the answer of the except clause: status 500
FailureReport ==
    [status |-> "error", merged |-> 0, removed_nodes |-> 0, removed_edges |-> 0,
     nodes |-> <<>>, edges |-> <<>>]

\* batch_size = 500, scaled to the model's stores
batch_size ==
    11

\* CHUNK = 100, scaled to the model's stores
CHUNK ==
    2

\* range(0, len(entity_list), batch_size): the number of batches
NumBatches(n) ==
    (n + batch_size - 1) \div batch_size

\* range(0, len(list), CHUNK) with list[i:i + CHUNK]
RECURSIVE Chunked(_)
Chunked(list) ==
    IF Len(list) <= CHUNK
    THEN (IF list = <<>> THEN <<>> ELSE <<list>>)
    ELSE <<SubSeq(list, 1, CHUNK)>> \o Chunked(SubSeq(list, CHUNK + 1, Len(list)))

\* the members of a chunk
ChunkIds(chunk) ==
    {chunk[i] : i \in DOMAIN chunk}

\* the ids of the edges with an id in `ids`, in the order the edges were fetched
IdsInOrder(edges, ids) ==
    LET hit == SelectSeq(edges, LAMBDA e : e.id \in ids)
    IN  [i \in DOMAIN hit |-> hit[i].id]

\* the orders in which a set can be iterated
SetOrders(S) ==
    {f \in [1..Cardinality(S) -> S] : \A i, j \in 1..Cardinality(S) : f[i] = f[j] => i = j}

\* the orders of the keys of id_remap: the groups in dict order, the ids of a group
\* in the iteration order of the set all_ids, which the run does not determine
RECURSIVE RemapKeyOrders(_, _, _)
RemapKeyOrders(rows, keys, i) ==
    IF i > Len(rows) THEN {<<>>}
    ELSE IF i \in FirstOfKey(keys)
    THEN {ids \o rest : ids \in SetOrders(RowIds(GroupOf(rows, keys, i))),
                        rest \in RemapKeyOrders(rows, keys, i + 1)}
    ELSE RemapKeyOrders(rows, keys, i + 1)

\* duplicate_ids: the keys of id_remap with old != new, in the order of the dict
DuplicateIdLists(rows, remap) ==
    {SelectSeq(order, LAMBDA k : remap[k] # k) :
        order \in RemapKeyOrders(rows, GroupKeys(rows), 1)}

\* raw_nodes = graph_store._fetch_all("nodes")
DedupFetchNodes ==
    /\ d_pc \in {"idle", "returned"}
    /\ Len(d_reports) < 2
    /\ d_raw_nodes' = s_nodes
    /\ d_merged' = <<>>
    /\ d_remap' = <<>>
    /\ d_heuristic_removed' = 0
    /\ d_gemini_merges' = 0
    /\ d_todo' = {}
    /\ d_pair' = <<>>
    /\ d_self_loop_ids' = {}
    /\ d_dup_edge_ids' = {}
    /\ d_batch' = 1
    /\ d_all_merge_groups' = <<>>
    /\ d_failed_batches' = {}
    /\ d_duplicate_ids' = <<>>
    /\ d_chunks' = <<>>
    /\ d_pc' = "fetched_nodes"
    /\ UNCHANGED <<s_nodes, s_edges, d_reports, dedupFrame>>

\* raw_edges = graph_store._fetch_all("edges"); an empty nodes table ends the run
DedupFetchEdges ==
    /\ d_pc = "fetched_nodes"
    /\ IF d_raw_nodes = <<>>
       THEN /\ d_reports' = Append(d_reports, Report(0, 0, 0))
            /\ d_pc' = "returned"
       ELSE /\ d_pc' = "pass1"
            /\ UNCHANGED d_reports
    /\ UNCHANGED <<s_nodes, s_edges, dedupLocals, dedupFrame>>

\* Pass 1: heuristic merge by (normalized label, type)
DedupPass1 ==
    /\ d_pc = "pass1"
    /\ d_merged' = Pass1Merged(d_raw_nodes)
    /\ d_remap' = Pass1Remap(d_raw_nodes)
    /\ d_heuristic_removed' = Len(d_raw_nodes) - Len(d_merged')
    /\ d_pc' = "pass2"
    /\ UNCHANGED <<s_nodes, s_edges, d_reports, d_raw_nodes, d_gemini_merges, d_todo,
                   d_pair, d_self_loop_ids, d_dup_edge_ids, pass2Locals, applyLocals,
                   dedupFrame>>

\* if client and len(merged_entities) > 10
Pass2Due ==
    d_client /\ Len(d_merged) > SemanticThreshold

\* Pass 2 is not due: no client, or ten canonical entities at most
DedupPass2Skip ==
    /\ d_pc = "pass2"
    /\ ~Pass2Due
    /\ d_pc' = "plan"
    /\ UNCHANGED <<s_nodes, s_edges, d_reports, dedupLocals, dedupFrame>>

\* generate_content or json.loads raised: the except clause of the batch
BatchFailed(answer) ==
    answer.type = "raise"

\* Pass 2, one batch: the call of the text model and json.loads, inside the try;
\* a failed call or a non-list answer adds no merge group
DedupPass2Batch ==
    /\ d_pc \in {"pass2", "pass2_batches"}
    /\ Pass2Due
    /\ d_batch <= NumBatches(Len(d_merged))
    /\ d_pc' = "pass2_batches"
    /\ \E answer \in ModelAnswers :
           /\ d_all_merge_groups' = d_all_merge_groups \o MergeGroupsOf(answer)
           /\ d_failed_batches' = IF BatchFailed(answer)
                                  THEN d_failed_batches \cup {d_batch}
                                  ELSE d_failed_batches
    /\ d_batch' = d_batch + 1
    /\ UNCHANGED <<s_nodes, s_edges, d_reports, d_raw_nodes, d_merged, d_remap,
                   d_heuristic_removed, d_gemini_merges, d_todo, d_pair, d_self_loop_ids,
                   d_dup_edge_ids, applyLocals, dedupFrame>>

\* Pass 2, after the last batch: the merge groups are applied; a KeyError of pop()
\* ends the run in the handler
DedupPass2Apply ==
    /\ d_pc = "pass2_batches"
    /\ d_batch > NumBatches(Len(d_merged))
    /\ \E st \in {ApplyMergeGroups(Pass2State(d_merged, d_remap, 0, FALSE),
                                   d_all_merge_groups)} :
           IF st.raised
           THEN /\ d_reports' = Append(d_reports, FailureReport)
                /\ d_pc' = "returned"
                /\ UNCHANGED <<d_merged, d_remap, d_gemini_merges>>
           ELSE /\ d_merged' = st.merged
                /\ d_remap' = st.remap
                /\ d_gemini_merges' = st.merges
                /\ d_pc' = "plan"
                /\ UNCHANGED d_reports
    /\ UNCHANGED <<s_nodes, s_edges, d_raw_nodes, d_heuristic_removed, d_todo, d_pair,
                   d_self_loop_ids, d_dup_edge_ids, pass2Locals, applyLocals, dedupFrame>>

\* an Apply stage that starts with the node cleanup
ApplyFirstStepDeletesNodes ==
    "delete_edges_by_source"

\* the first step of the Apply stage: the edge rewiring
ApplyFirstStep ==
    "rewire"

\* a cleanup that runs whether or not a node id is remapped
EarlyReturnNever(remap) ==
    FALSE

\* if not duplicate_ids: return
EarlyReturn(remap) ==
    DuplicateIds(remap) = {}

\* remap_pairs and duplicate_ids; without a duplicate the run returns here
DedupPlan ==
    /\ d_pc = "plan"
    /\ IF EarlyReturn(d_remap)
       THEN /\ d_reports' = Append(d_reports, Report(0, 0, 0))
            /\ d_pc' = "returned"
            /\ UNCHANGED <<d_todo, applyLocals>>
       ELSE /\ d_todo' = RemapPairs(d_remap)
            /\ \E ids \in DuplicateIdLists(d_raw_nodes, d_remap) :
                   /\ d_duplicate_ids' = ids
                   /\ d_chunks' = Chunked(ids)
            /\ d_pc' = ApplyFirstStep
            /\ UNCHANGED d_reports
    /\ UNCHANGED <<s_nodes, s_edges, d_raw_nodes, d_merged, d_remap, d_heuristic_removed,
                   d_gemini_merges, d_pair, d_self_loop_ids, d_dup_edge_ids, pass2Locals,
                   dedupFrame>>

\* update({"source": canonical_id}).eq("source", old_id), for the next pair
DedupRewireSource ==
    /\ d_pc = "rewire"
    /\ \E p \in d_todo :
           /\ s_edges' = [i \in DOMAIN s_edges |->
                             IF s_edges[i].source = p[1]
                             THEN [s_edges[i] EXCEPT !.source = p[2]] ELSE s_edges[i]]
           /\ d_pair' = p
           /\ d_todo' = d_todo \ {p}
    /\ d_pc' = "rewire_target"
    /\ UNCHANGED <<s_nodes, d_reports, d_raw_nodes, d_merged, d_remap, d_heuristic_removed,
                   d_gemini_merges, d_self_loop_ids, d_dup_edge_ids, pass2Locals,
                   applyLocals, dedupFrame>>

\* update({"target": canonical_id}).eq("target", old_id), for the same pair
DedupRewireTarget ==
    /\ d_pc = "rewire_target"
    /\ s_edges' = [i \in DOMAIN s_edges |->
                      IF s_edges[i].target = d_pair[1]
                      THEN [s_edges[i] EXCEPT !.target = d_pair[2]] ELSE s_edges[i]]
    /\ d_pc' = "rewire"
    /\ UNCHANGED <<s_nodes, d_reports, dedupLocals, dedupFrame>>

\* self_loops = select("id, source, target"); self_loop_ids and its chunks
DedupSelectSelfLoops ==
    /\ d_pc = "rewire"
    /\ d_todo = {}
    /\ d_self_loop_ids' = {s_edges[i].id : i \in {j \in DOMAIN s_edges :
                                                     s_edges[j].source = s_edges[j].target}}
    /\ d_chunks' = Chunked(IdsInOrder(s_edges, d_self_loop_ids'))
    /\ d_pc' = IF d_self_loop_ids' = {} THEN "find_duplicate_edges" ELSE "delete_self_loops"
    /\ UNCHANGED <<s_nodes, s_edges, d_reports, d_raw_nodes, d_merged, d_remap,
                   d_heuristic_removed, d_gemini_merges, d_todo, d_pair, d_dup_edge_ids,
                   pass2Locals, d_duplicate_ids, dedupFrame>>

\* delete().in_("id", chunk), for the next chunk of self_loop_ids
DedupDeleteSelfLoops ==
    /\ d_pc = "delete_self_loops"
    /\ s_edges' = SelectSeq(s_edges, LAMBDA e : e.id \notin ChunkIds(Head(d_chunks)))
    /\ d_chunks' = Tail(d_chunks)
    /\ d_pc' = IF d_chunks' = <<>> THEN "find_duplicate_edges" ELSE d_pc
    /\ UNCHANGED <<s_nodes, d_reports, d_raw_nodes, d_merged, d_remap, d_heuristic_removed,
                   d_gemini_merges, d_todo, d_pair, d_self_loop_ids, d_dup_edge_ids,
                   pass2Locals, d_duplicate_ids, dedupFrame>>

\* the ids of the edges whose (source, predicate, target) occurred before them
DuplicateEdgeIds(edges) ==
    {edges[i].id : i \in {j \in DOMAIN edges :
                             \E k \in 1..(j - 1) :
                                 /\ edges[k].source = edges[j].source
                                 /\ edges[k].predicate = edges[j].predicate
                                 /\ edges[k].target = edges[j].target}}

\* all_edges_now = graph_store._fetch_all("edges"); dup_edge_ids and its chunks;
\* without a duplicate edge the next loop is the upsert of canonical_records
DedupFindDuplicateEdges ==
    /\ d_pc = "find_duplicate_edges"
    /\ d_dup_edge_ids' = DuplicateEdgeIds(s_edges)
    /\ IF d_dup_edge_ids' = {}
       THEN /\ d_chunks' = Chunked(d_merged)
            /\ d_pc' = "upsert_canonical"
       ELSE /\ d_chunks' = Chunked(IdsInOrder(s_edges, d_dup_edge_ids'))
            /\ d_pc' = "delete_duplicate_edges"
    /\ UNCHANGED <<s_nodes, s_edges, d_reports, d_raw_nodes, d_merged, d_remap,
                   d_heuristic_removed, d_gemini_merges, d_todo, d_pair, d_self_loop_ids,
                   pass2Locals, d_duplicate_ids, dedupFrame>>

\* delete().in_("id", chunk), for the next chunk of dup_edge_ids
DedupDeleteDuplicateEdges ==
    /\ d_pc = "delete_duplicate_edges"
    /\ s_edges' = SelectSeq(s_edges, LAMBDA e : e.id \notin ChunkIds(Head(d_chunks)))
    /\ IF Tail(d_chunks) = <<>>
       THEN /\ d_chunks' = Chunked(d_merged)
            /\ d_pc' = "upsert_canonical"
       ELSE /\ d_chunks' = Tail(d_chunks)
            /\ UNCHANGED d_pc
    /\ UNCHANGED <<s_nodes, d_reports, d_raw_nodes, d_merged, d_remap, d_heuristic_removed,
                   d_gemini_merges, d_todo, d_pair, d_self_loop_ids, d_dup_edge_ids,
                   pass2Locals, d_duplicate_ids, dedupFrame>>

\* table.upsert(records, on_conflict="id"): a row with the id is replaced in
\* place, a new id is appended
RECURSIVE Upsert(_, _)
Upsert(table, records) ==
    IF records = <<>> THEN table
    ELSE LET r == Head(records)
             next == IF \E i \in DOMAIN table : table[i].id = r.id
                     THEN [i \in DOMAIN table |-> IF table[i].id = r.id THEN r ELSE table[i]]
                     ELSE Append(table, r)
         IN  Upsert(next, Tail(records))

\* nodes.upsert(chunk, on_conflict="id"), for the next chunk of canonical_records;
\* after the last one the loop over the chunks of duplicate_ids begins
DedupUpsertCanonical ==
    /\ d_pc = "upsert_canonical"
    /\ s_nodes' = Upsert(s_nodes, Head(d_chunks))
    /\ IF Tail(d_chunks) = <<>>
       THEN /\ d_chunks' = Chunked(d_duplicate_ids)
            /\ d_pc' = "delete_edges_by_source"
       ELSE /\ d_chunks' = Tail(d_chunks)
            /\ UNCHANGED d_pc
    /\ UNCHANGED <<s_edges, d_reports, d_raw_nodes, d_merged, d_remap, d_heuristic_removed,
                   d_gemini_merges, d_todo, d_pair, d_self_loop_ids, d_dup_edge_ids,
                   pass2Locals, d_duplicate_ids, dedupFrame>>

\* edges.delete().in_("source", chunk), for the next chunk of duplicate_ids
DedupDeleteEdgesBySource ==
    /\ d_pc = "delete_edges_by_source"
    /\ s_edges' = SelectSeq(s_edges, LAMBDA e : e.source \notin ChunkIds(Head(d_chunks)))
    /\ d_pc' = "delete_edges_by_target"
    /\ UNCHANGED <<s_nodes, d_reports, dedupLocals, dedupFrame>>

\* edges.delete().in_("target", chunk), for the same chunk
DedupDeleteEdgesByTarget ==
    /\ d_pc = "delete_edges_by_target"
    /\ s_edges' = SelectSeq(s_edges, LAMBDA e : e.target \notin ChunkIds(Head(d_chunks)))
    /\ d_pc' = "delete_nodes"
    /\ UNCHANGED <<s_nodes, d_reports, dedupLocals, dedupFrame>>

\* the nodes table after delete().in_("id", ids): the rows go whether or not an edge
\* still names them
DeleteNodesById(nodes, ids) ==
    SelectSeq(nodes, LAMBDA n : n.id \notin ids)

\* nodes.delete().in_("id", chunk), for the same chunk; then the next chunk
DedupDeleteNodes ==
    /\ d_pc = "delete_nodes"
    /\ s_nodes' = DeleteNodesById(s_nodes, ChunkIds(Head(d_chunks)))
    /\ d_chunks' = Tail(d_chunks)
    /\ d_pc' = IF d_chunks' = <<>> THEN "report" ELSE "delete_edges_by_source"
    /\ UNCHANGED <<s_edges, d_reports, d_raw_nodes, d_merged, d_remap, d_heuristic_removed,
                   d_gemini_merges, d_todo, d_pair, d_self_loop_ids, d_dup_edge_ids,
                   pass2Locals, d_duplicate_ids, dedupFrame>>

\* return {"merged": ..., "removed_nodes": ..., "removed_edges": ..., **load()}
DedupReturn ==
    /\ d_pc = "report"
    /\ d_reports' = Append(d_reports,
                           Report(d_heuristic_removed + d_gemini_merges,
                                  Cardinality(DuplicateIds(d_remap)),
                                  Cardinality(d_self_loop_ids) + Cardinality(d_dup_edge_ids)))
    /\ d_pc' = "returned"
    /\ UNCHANGED <<s_nodes, s_edges, dedupLocals, dedupFrame>>

(***************************************************************************)
(* SpecDedup: deduplicate_graph run twice on a store                       *)
(***************************************************************************)
RowAcme1 ==
    NodeRow("acme1", <<"A","c","m","e"," ","C","o","r","p">>, <<"O","R","G">>,
            <<"d","d">>, {<<"A","C">>})

RowAcme2 ==
    NodeRow("acme2", <<"a","c","m","e"," ","c","o","r","p",".">>, <<"O","r","g">>,
            <<"d">>, {})

RowAcme3 ==
    NodeRow("acme3", <<"A","C","M","E"," ","C","o","r","p">>, <<"O","R","G">>,
            <<"x","x">>, {<<"A","c","m","e"," ","C","o","r","p">>})

RowJohn ==
    NodeRow("john", <<"J","o","h","n">>, <<"P","E","R","S","O","N">>, <<"d">>, {})

RowJohnU ==
    NodeRow("john_u", <<"J","o","h","n">>, NullType, <<"d","d","d">>, {})

FillerRow(id, digit) ==
    NodeRow(id, <<"F", digit>>, <<"O","R","G">>, <<>>, {})

\* nine more entities, each alone in its group
FillerRows ==
    <<FillerRow("f1", "1"), FillerRow("f2", "2"), FillerRow("f3", "3"),
      FillerRow("f4", "4"), FillerRow("f5", "5"), FillerRow("f6", "6"),
      FillerRow("f7", "7"), FillerRow("f8", "8"), FillerRow("f9", "9")>>

\* the nodes tables a run starts from, in stored order
NodeTables ==
    LET base == {<<>>,
                 <<RowJohn>>,
                 <<RowAcme1, RowAcme2>>,
                 <<RowAcme3, RowAcme1, RowAcme2>>,
                 <<RowAcme1, RowAcme3, RowJohn>>,
                 <<RowJohn, RowJohnU>>,
                 <<RowAcme2, RowJohn, RowAcme1, RowJohnU>>}
    IN  base \cup {b \o FillerRows : b \in base \ {<<>>}}

\* the edges a store can hold, in stored order; extraction writes an edge for
\* every triple, one from an entity to itself included; the migration writes
\* the edges of the legacy file under their own ids, so two rows can carry the
\* same (source, predicate, target)
EdgePool ==
    <<EdgeRow("e1", "acme1", "owns", "john"),
      EdgeRow("e2", "acme2", "owns", "john"),
      EdgeRow("e3", "acme1", "partner", "acme2"),
      EdgeRow("e4", "john", "knows", "john"),
      EdgeRow("e5", "john", "sued", "acme3"),
      EdgeRow("e6", "john_u", "paid", "john"),
      EdgeRow("e7", "john_u", "paid", "john")>>

\* the edges tables over a nodes table: both ends of every edge are stored nodes
EdgeTables(nodes) ==
    LET usable == {i \in DOMAIN EdgePool :
                      /\ EdgePool[i].source \in RowIds(nodes)
                      /\ EdgePool[i].target \in RowIds(nodes)}
    IN  {Pick(EdgePool, keep, 1) : keep \in SUBSET usable}

AddIdle ==
    /\ a_pc = "off"
    /\ a_new_nodes = <<>>
    /\ a_new_edges = <<>>

DedupLocalsInit ==
    /\ d_raw_nodes = <<>>
    /\ d_merged = <<>>
    /\ d_remap = <<>>
    /\ d_heuristic_removed = 0
    /\ d_gemini_merges = 0
    /\ d_todo = {}
    /\ d_pair = <<>>
    /\ d_self_loop_ids = {}
    /\ d_dup_edge_ids = {}
    /\ d_reports = <<>>
    /\ d_batch = 1
    /\ d_all_merge_groups = <<>>
    /\ d_duplicate_ids = <<>>
    /\ d_chunks = <<>>
    /\ d_failed_batches = {}
    /\ d_store0 = [nodes |-> s_nodes, edges |-> s_edges]
    /\ d_interrupted = [done |-> FALSE, groups |-> <<>>]

InitDedup ==
    /\ SessionIdle
    /\ ResolveIdle
    /\ BfsIdle
    /\ UploadIdle
    /\ PathsIdle
    /\ NarrativeIdle
    /\ EndpointsIdle
    /\ AddIdle
    /\ s_nodes \in NodeTables
    /\ s_edges \in EdgeTables(s_nodes)
    /\ d_client \in BOOLEAN
    /\ d_pc = "idle"
    /\ DedupLocalsInit

NextDedup ==
    \/ DedupFetchNodes
    \/ DedupFetchEdges
    \/ DedupPass1
    \/ DedupPass2Skip
    \/ DedupPass2Batch
    \/ DedupPass2Apply
    \/ DedupPlan
    \/ DedupRewireSource
    \/ DedupRewireTarget
    \/ DedupSelectSelfLoops
    \/ DedupDeleteSelfLoops
    \/ DedupFindDuplicateEdges
    \/ DedupDeleteDuplicateEdges
    \/ DedupUpsertCanonical
    \/ DedupDeleteEdgesBySource
    \/ DedupDeleteEdgesByTarget
    \/ DedupDeleteNodes
    \/ DedupReturn

SpecDedup ==
    InitDedup /\ [][NextDedup]_vars

(***************************************************************************)
(* detect_connection_query                                                 *)
(***************************************************************************)
\* pattern.search with IGNORECASE, for a pattern made of a literal prefix, (.+?), a
\* literal middle, (.+?) and [\?\.]?$; the literals are written in lower case and
\* compared with the query in lower case
MatchesAt(lowered, pos, lit) ==
    /\ pos + Len(lit) - 1 <= Len(lowered)
    /\ \A i \in DOMAIN lit : lowered[pos + i - 1] = lit[i]

ConnectionPattern(prefixes, middles) ==
    [prefixes |-> prefixes, middles |-> middles]

\* CONNECTION_PATTERNS, every alternation written out
CONNECTION_PATTERNS ==
    <<ConnectionPattern({<<"h","o","w"," ","i","s"," ">>,
                         <<"h","o","w"," ","a","r","e"," ">>},
                        {<<" ","c","o","n","n","e","c","t","e","d"," ","t","o"," ">>,
                         <<" ","r","e","l","a","t","e","d"," ","t","o"," ">>,
                         <<" ","l","i","n","k","e","d"," ","t","o"," ">>}),
      ConnectionPattern({<<"c","o","n","n","e","c","t","i","o","n"," ","b","e","t","w","e","e","n"," ">>,
                         <<"l","i","n","k"," ","b","e","t","w","e","e","n"," ">>,
                         <<"r","e","l","a","t","i","o","n","s","h","i","p"," ","b","e","t","w","e","e","n"," ">>},
                        {<<" ","a","n","d"," ">>}),
      ConnectionPattern({<<"w","h","a","t"," ","c","o","n","n","e","c","t","s"," ">>,
                         <<"w","h","a","t"," ","l","i","n","k","s"," ">>,
                         <<"w","h","a","t"," ","t","i","e","s"," ">>},
                        {<<" ","t","o"," ">>,
                         <<" ","a","n","d"," ">>,
                         <<" ","w","i","t","h"," ">>}),
      ConnectionPattern({<<"t","r","a","c","e"," ","t","h","e"," ","p","a","t","h"," ","f","r","o","m"," ">>,
                         <<"t","r","a","c","e"," ","t","h","e"," ","p","a","t","h"," ","b","e","t","w","e","e","n"," ">>,
                         <<"t","r","a","c","e"," ","t","h","e"," ","c","o","n","n","e","c","t","i","o","n"," ","f","r","o","m"," ">>,
                         <<"t","r","a","c","e"," ","t","h","e"," ","c","o","n","n","e","c","t","i","o","n"," ","b","e","t","w","e","e","n"," ">>,
                         <<"t","r","a","c","e"," ","p","a","t","h"," ","f","r","o","m"," ">>,
                         <<"t","r","a","c","e"," ","p","a","t","h"," ","b","e","t","w","e","e","n"," ">>,
                         <<"t","r","a","c","e"," ","c","o","n","n","e","c","t","i","o","n"," ","f","r","o","m"," ">>,
                         <<"t","r","a","c","e"," ","c","o","n","n","e","c","t","i","o","n"," ","b","e","t","w","e","e","n"," ">>},
                        {<<" ","t","o"," ">>,
                         <<" ","a","n","d"," ">>}),
      ConnectionPattern({<<>>},
                        {<<" ","c","o","n","n","e","c","t","i","o","n"," ","t","o"," ">>,
                         <<" ","c","o","n","n","e","c","t","i","o","n"," ","w","i","t","h"," ">>,
                         <<" ","r","e","l","a","t","i","o","n","s","h","i","p"," ","t","o"," ">>,
                         <<" ","r","e","l","a","t","i","o","n","s","h","i","p"," ","w","i","t","h"," ">>,
                         <<" ","l","i","n","k"," ","t","o"," ">>,
                         <<" ","l","i","n","k"," ","w","i","t","h"," ">>})>>

\* the places of the query at which a middle of the pattern stands with one
\* character at least after it for the second group
MiddleHits(lowered, pat) ==
    {h \in (1..Len(lowered)) \X pat.middles :
        /\ MatchesAt(lowered, h[1], h[2])
        /\ h[1] + Len(h[2]) <= Len(lowered)}

\* the ways a pattern matches from a start position: a prefix at the position and a
\* middle behind a first group of one character at least
MatchesFrom(lowered, pat, s, hits) ==
    {m \in {p \in pat.prefixes : MatchesAt(lowered, s, p)} \X hits :
        m[2][1] >= s + Len(m[1]) + 1}

\* (.+?)[\?\.]?$ on the rest of the query: the shortest group leaves one final
\* question mark or full stop out
LastGroup(rest) ==
    IF Len(rest) >= 2 /\ rest[Len(rest)] \in {"?", "."}
    THEN SubSeq(rest, 1, Len(rest) - 1)
    ELSE rest

\* m = pattern.search(query): the leftmost start, the shortest first group
PatternSearch(q, pat) ==
    LET lowered == [i \in DOMAIN q |-> ToLower(q[i])]
        hits == MiddleHits(lowered, pat)
        starts == {s \in 1..Len(q) : MatchesFrom(lowered, pat, s, hits) # {}}
    IN  IF starts = {} THEN None
        ELSE LET s == CHOOSE x \in starts : \A y \in starts : x <= y
                 ms == MatchesFrom(lowered, pat, s, hits)
                 m == CHOOSE x \in ms : \A y \in ms : x[2][1] <= y[2][1]
                 from1 == s + Len(m[1])
                 from2 == m[2][1] + Len(m[2][2])
             IN  Some([group1 |-> SubSeq(q, from1, m[2][1] - 1),
                       group2 |-> LastGroup(SubSeq(q, from2, Len(q)))])

Quotes ==
    {"\"", "'"}

\* .strip('"\'')
RECURSIVE StripQuotes(_)
StripQuotes(s) ==
    IF s # <<>> /\ Head(s) \in Quotes THEN StripQuotes(Tail(s))
    ELSE IF s # <<>> /\ s[Len(s)] \in Quotes THEN StripQuotes(SubSeq(s, 1, Len(s) - 1))
    ELSE s

\* the first pattern from position i on that matches with two names longer than one
\* character
RECURSIVE DetectFrom(_, _)
DetectFrom(q, i) ==
    IF i > Len(CONNECTION_PATTERNS) THEN None
    ELSE LET m == PatternSearch(q, CONNECTION_PATTERNS[i])
         IN  IF m = None THEN DetectFrom(q, i + 1)
             ELSE LET a == StripQuotes(Strip(m[1].group1))
                      b == StripQuotes(Strip(m[1].group2))
                  IN  IF Len(a) > 1 /\ Len(b) > 1 THEN Some(<<a, b>>)
                      ELSE DetectFrom(q, i + 1)

detect_connection_query(query) ==
    DetectFrom(Strip(query), 1)

QueryHowIs ==
    <<"H","o","w"," ","i","s"," ","A","c","m","e"," ","C","o","r","p"," ","c","o","n","n","e","c","t","e","d"," ","t","o"," ","J","o","h","n"," ","S","m","i","t","h","?">>

QueryHowAre ==
    <<" "," ","h","o","w"," ","a","r","e"," ","a","c","m","e"," ","a","n","d"," ","M","i","d"," ","C","o"," ","r","e","l","a","t","e","d"," ","t","o"," ","J","o","h","n"," ","S","m","i","t","h">>

QueryBetween ==
    <<"t","h","e"," ","r","e","l","a","t","i","o","n","s","h","i","p"," ","b","e","t","w","e","e","n"," ","J","o","h","n"," ","S","m","i","t","h"," ","a","n","d"," ","A","c","m","e"," ","C","o","r","p",".">>

QueryWhatLinks ==
    <<"W","h","a","t"," ","l","i","n","k","s"," ","S","o","l","o"," ","w","i","t","h"," ","A","c","m","e"," ","C","o","r","p","?">>

QueryTrace ==
    <<"T","r","a","c","e"," ","t","h","e"," ","p","a","t","h"," ","f","r","o","m"," ","M","i","d"," ","C","o"," ","t","o"," ","'","J","o","h","n"," ","S","m","i","t","h","'">>

QueryLinkTo ==
    <<"J","o","h","n"," ","S","m","i","t","h"," ","l","i","n","k"," ","t","o"," ","z","z","z","?","?">>

QueryShortName ==
    <<"H","o","w"," ","i","s"," ","Q"," ","c","o","n","n","e","c","t","e","d"," ","t","o"," ","J","o","h","n"," ","S","m","i","t","h","?">>

QueryPlain ==
    <<"W","h","o"," ","i","s"," ","J","o","h","n"," ","S","m","i","t","h","?">>

\* request.query
Queries ==
    {QueryHowIs, QueryHowAre, QueryBetween, QueryWhatLinks, QueryTrace, QueryLinkTo, QueryShortName, QueryPlain}

(***************************************************************************)
(* SpecQuery: query_index up to the context it hands to the text model     *)
(***************************************************************************)
\* what _build_query_context does: it raises, or returns the joined context parts
\* (empty when no candidate came back)
DocumentOutcomes ==
    {[kind |-> "value_error", context |-> <<>>],
     [kind |-> "exception", context |-> <<>>],
     [kind |-> "context", context |-> <<>>],
     [kind |-> "context", context |-> <<"[Source: a.pdf, Page: 1]", "[Source: b.pdf, Page: 2]">>]}

\* a piece of the context string, in the order of the concatenation
Segment(part, content) ==
    [part |-> part, content |-> content]

\* f"\n\nGRAPH CONNECTIONS FOUND:\n{graph_context}\n"
GraphContextOf(narrative) ==
    <<Segment("GRAPH CONNECTIONS FOUND", narrative)>>

\* the document context put in front of the graph context
FullContextDocumentsFirst(graph_context, context) ==
    IF graph_context # <<>>
    THEN <<Segment("DOCUMENT CONTEXT", context)>> \o graph_context
    ELSE <<Segment("", context)>>

\* full_context = graph_context + "\n\nDOCUMENT CONTEXT:\n" + context, or context alone
FullContext(graph_context, context) ==
    IF graph_context # <<>>
    THEN graph_context \o <<Segment("DOCUMENT CONTEXT", context)>>
    ELSE <<Segment("", context)>>

queryFrame ==
    <<sessionVars, poolVars, resolveVars, pathVars, writerVars, searchVars, handlerVars,
      bfsVars, uploadVars>>

\* conn_match = detect_connection_query(request.query); on a match the graph is
\* loaded and find_paths_narrative is called with the two names
QueryDetect ==
    /\ q_pc = "call"
    /\ \E conn_match \in {detect_connection_query(q_query)} :
           /\ q_match' = conn_match
           /\ IF conn_match # None
              THEN /\ \E loaded \in {q_store, EmptyGraph} : n_graph' = loaded
                   /\ n_name_a' = conn_match[1][1]
                   /\ n_name_b' = conn_match[1][2]
                   /\ n_pc' = "call"
                   /\ q_pc' = "narrative"
              ELSE /\ q_pc' = "context"
                   /\ UNCHANGED <<n_graph, n_name_a, n_name_b, n_pc>>
    /\ UNCHANGED <<q_query, q_store, q_graph_context, q_response, n_id_a, n_id_b, n_result,
                   queryFrame>>

\* find_paths_narrative has returned: graph_context
QueryNarrativeDone ==
    /\ q_pc = "narrative"
    /\ n_pc = "returned"
    /\ q_graph_context' = GraphContextOf(n_result)
    /\ q_pc' = "context"
    /\ UNCHANGED <<q_query, q_store, q_match, q_response, narrativeVars, queryFrame>>

\* context, sources = _build_query_context(request), then the context of the prompt
QueryBuildContext ==
    /\ q_pc = "context"
    /\ \E outcome \in DocumentOutcomes :
           q_response' =
               IF outcome.kind = "value_error"
               THEN [kind |-> "error", full_context |-> <<>>]
               ELSE IF outcome.kind = "exception"
               THEN [kind |-> "analysis_failed", full_context |-> <<>>]
               ELSE IF outcome.context = <<>> /\ q_graph_context = <<>>
               THEN [kind |-> "no_relevant_info", full_context |-> <<>>]
               ELSE [kind |-> "prompt",
                     full_context |-> FullContext(q_graph_context, outcome.context)]
    /\ q_pc' = "returned"
    /\ UNCHANGED <<q_query, q_store, q_match, q_graph_context, narrativeVars, queryFrame>>

InitQuery ==
    /\ SessionIdle
    /\ ResolveIdle
    /\ BfsIdle
    /\ UploadIdle
    /\ PathsIdle
    /\ NarrativeIdle
    /\ DedupIdle
    /\ SearchIdle
    /\ HandlerIdle
    /\ q_pc = "call"
    /\ q_query \in Queries
    /\ q_store \in StoredGraphs
    /\ q_match = None
    /\ q_graph_context = <<>>
    /\ q_response = [kind |-> "none", full_context |-> <<>>]

\* find_paths runs with the default max_hops: the stored graphs have four nodes, so
\* no path on the queue has more than three edges and none is dropped as too long
NextQuery ==
    \/ QueryDetect
    \/ NarrativeResolve
    \/ FindPathsEnter
    \/ DequeueGoal
    \/ DequeueExpand
    \/ FindPathsReturn
    \/ NarrativeFormat
    \/ QueryNarrativeDone
    \/ QueryBuildContext

SpecQuery ==
    InitQuery /\ [][NextQuery]_vars

(***************************************************************************)
(* SpecSearch: _semantic_search_pass and reranker.rerank                   *)
(***************************************************************************)
MaxMatches ==
    3

MaxTopN ==
    2

\* a match of the vector index: metadata may be missing; node_content is the
\* '_node_content' entry (absent, not JSON, or a JSON object with its 'text');
\* flat is metadata['text'] ("" when absent)
Match(has_metadata, node_content, flat) ==
    [has_metadata |-> has_metadata, node_content |-> node_content, flat |-> flat]

NoNodeContent ==
    [kind |-> "absent", text |-> ""]

BadNodeContent ==
    [kind |-> "invalid", text |-> ""]

NodeContent(text) ==
    [kind |-> "json", text |-> text]

MatchCatalog ==
    {Match(FALSE, NoNodeContent, ""),
     Match(TRUE, NodeContent("nested"), "flat behind nested"),
     Match(TRUE, NodeContent(""), "flat behind empty"),
     Match(TRUE, BadNodeContent, "flat behind invalid"),
     Match(TRUE, NoNodeContent, "flat"),
     Match(TRUE, NoNodeContent, "")}

\* the text of a match: the nested text if there is one, else the flat text
TextOf(r) ==
    IF r.node_content.kind = "json" /\ r.node_content.text # ""
    THEN r.node_content.text
    ELSE r.flat

\* 3. Extract text + metadata: the matches with metadata and text, in the order of
\* results.matches; rank is the place of the match in that order
RECURSIVE ExtractFrom(_, _)
ExtractFrom(matches, i) ==
    IF i > Len(matches) THEN <<>>
    ELSE (IF matches[i].has_metadata /\ TextOf(matches[i]) # ""
          THEN <<[text |-> TextOf(matches[i]), rank |-> i]>>
          ELSE <<>>) \o ExtractFrom(matches, i + 1)

Extract(matches) ==
    ExtractFrom(matches, 1)

\* candidates[:n]
FirstN(list, n) ==
    SubSeq(list, 1, IF n < Len(list) THEN n ELSE Len(list))

\* the values of the rerank_fn argument: None, reranker.rerank, or a callable that
\* raises
RerankFns ==
    {"None", "rerank", "raises"}

\* rerank_fn and len(candidates) > rerank_top_n, taken for >=
RerankAppliesFromTopN(rerank_fn, candidates, rerank_top_n) ==
    rerank_fn # "None" /\ Len(candidates) >= rerank_top_n

\* rerank_fn and len(candidates) > rerank_top_n
RerankApplies(rerank_fn, candidates, rerank_top_n) ==
    rerank_fn # "None" /\ Len(candidates) > rerank_top_n

\* the orders in which the ranker can return n passages
Orders(n) ==
    {o \in [1..n -> 1..n] : \A i, j \in 1..n : o[i] = o[j] => i = j}

\* reranker.rerank: without a ranker, or when ranking fails, candidates[:top_n];
\* else the candidates named by the first top_n results
RerankResults(candidates, top_n) ==
    {FirstN(candidates, top_n)}
        \cup {[k \in 1..(IF top_n < Len(candidates) THEN top_n ELSE Len(candidates)) |->
                  candidates[o[k]]] : o \in Orders(Len(candidates))}

searchFrame ==
    <<sessionVars, poolVars, resolveVars, pathVars, narrativeVars, writerVars, queryVars,
      handlerVars, bfsVars, uploadVars>>

\* 1. embed the query, 2. query the index, 3. extract; an exception of either call
\* leaves the function
SearchExtract ==
    /\ p_pc = "call"
    /\ \/ /\ p_candidates' = Extract(p_matches)
          /\ p_pc' = "rerank"
          /\ UNCHANGED p_outcome
       \/ /\ p_outcome' = "raised"
          /\ p_pc' = "returned"
          /\ UNCHANGED p_candidates
    /\ UNCHANGED <<p_matches, p_rerank_fn, p_rerank_top_n, p_rerank_calls, p_rerank_raised,
                   searchFrame>>

\* 4. the else branch: candidates[:rerank_top_n]
SearchTruncate ==
    /\ p_pc = "rerank"
    /\ ~RerankApplies(p_rerank_fn, p_candidates, p_rerank_top_n)
    /\ p_candidates' = FirstN(p_candidates, p_rerank_top_n)
    /\ p_outcome' = "returned"
    /\ p_pc' = "returned"
    /\ UNCHANGED <<p_matches, p_rerank_fn, p_rerank_top_n, p_rerank_calls, p_rerank_raised,
                   searchFrame>>

\* 4. rerank_fn(query_text, candidates, top_n=rerank_top_n) is called
SearchRerankCall ==
    /\ p_pc = "rerank"
    /\ RerankApplies(p_rerank_fn, p_candidates, p_rerank_top_n)
    /\ p_rerank_calls' = p_rerank_calls + 1
    /\ p_pc' = "reranking"
    /\ UNCHANGED <<p_matches, p_rerank_fn, p_rerank_top_n, p_candidates, p_rerank_raised,
                   p_outcome, searchFrame>>

\* reranker.rerank returns
RerankReturns ==
    /\ p_pc = "reranking"
    /\ p_rerank_fn = "rerank"
    /\ p_candidates' \in RerankResults(p_candidates, p_rerank_top_n)
    /\ p_outcome' = "returned"
    /\ p_pc' = "returned"
    /\ UNCHANGED <<p_matches, p_rerank_fn, p_rerank_top_n, p_rerank_calls, p_rerank_raised,
                   searchFrame>>

\* rerank_fn raises: except Exception, candidates[:rerank_top_n]
RerankRaises ==
    /\ p_pc = "reranking"
    /\ p_rerank_fn = "raises"
    /\ p_rerank_raised' = TRUE
    /\ p_candidates' = FirstN(p_candidates, p_rerank_top_n)
    /\ p_outcome' = "returned"
    /\ p_pc' = "returned"
    /\ UNCHANGED <<p_matches, p_rerank_fn, p_rerank_top_n, p_rerank_calls, searchFrame>>

\* the lists of at most n matches
RECURSIVE MatchLists(_)
MatchLists(n) ==
    IF n = 0 THEN {<<>>}
    ELSE MatchLists(n - 1)
             \cup {Append(l, r) : l \in {x \in MatchLists(n - 1) : Len(x) = n - 1},
                                  r \in MatchCatalog}

InitSearch ==
    /\ SessionIdle
    /\ ResolveIdle
    /\ BfsIdle
    /\ UploadIdle
    /\ PathsIdle
    /\ NarrativeIdle
    /\ DedupIdle
    /\ QueryIdle
    /\ HandlerIdle
    /\ p_pc = "call"
    /\ p_matches \in MatchLists(MaxMatches)
    /\ p_rerank_fn \in RerankFns
    /\ p_rerank_top_n \in 0..MaxTopN
    /\ p_candidates = <<>>
    /\ p_rerank_calls = 0
    /\ p_rerank_raised = FALSE
    /\ p_outcome = "none"

NextSearch ==
    \/ SearchExtract
    \/ SearchTruncate
    \/ SearchRerankCall
    \/ RerankReturns
    \/ RerankRaises

SpecSearch ==
    InitSearch /\ [][NextSearch]_vars

(***************************************************************************)
(* The event stream                                                        *)
(***************************************************************************)
Events ==
    SelectSeq(log, LAMBDA e : e.kind = "event")

EventsOfType(t) ==
    SelectSeq(log, LAMBDA e : e.kind = "event" /\ e.type = t)

\* the step_status events of one step, in order
StatusEvents(step) ==
    SelectSeq(log, LAMBDA e : e.kind = "event" /\ e.type = "step_status" /\ e.step = step)

IsTerminal(e) ==
    e.status \in {"done", "error"}

Runnings(st) ==
    Len(SelectSeq(st, LAMBDA e : e.status = "running"))

Terminals(st) ==
    Len(SelectSeq(st, IsTerminal))

HasTerminal(step) ==
    Terminals(StatusEvents(step)) > 0

\* the run ended in the handler of run_investigation
Crashed ==
    log # <<>> /\ log[Len(log)].phase = "driver"

CallsOf(name) ==
    SelectSeq(log, LAMBDA e : e.kind = "call" /\ e.type = name)

StepSet ==
    {Steps[i] : i \in DOMAIN Steps}

\* the place of a phase in the order of the source; the driver's handler is last
PhaseIndex ==
    [query_analysis |-> 1, entity_intel |-> 2, graph_traversal |-> 3,
     semantic_search |-> 4, keyword_search |-> 5, synthesis |-> 6, driver |-> 7]

(***************************************************************************)
(* C1: every run that ends has emitted exactly one done event, also when a *)
(* phase raises past every phase-level handler; no run emits two.          *)
(***************************************************************************)
C1_ExactlyOneDone ==
    LET dones == Len(EventsOfType("done"))
    IN  /\ dones <= 1
        /\ pc = "finished" => dones = 1

\* a run that crashed during the semantic search and has ended
C1_Witness ==
    /\ pc = "finished"
    /\ Crashed
    /\ StatusEvents("semantic_search") # <<>>
    /\ Len(EventsOfType("done")) = 1

RunningExpected(step) ==
    CASE step = "semantic_search" -> {3}
      [] step \in {"entity_intel", "graph_traversal"} -> {0, 1}
      [] OTHER -> {1}

C3_DoneIsLast ==
    LET ev == Events
    IN  \A i \in DOMAIN ev : ev[i].type = "done" => i = Len(ev)

\* a finished files_web run that streamed text and emitted every kind of event
C3_Witness ==
    /\ pc = "finished"
    /\ log[Len(log)].type = "done"
    /\ \A t \in {"text", "sources", "follow_ups", "web_sources"} : EventsOfType(t) # <<>>

(***************************************************************************)
(* C4: the phases run one after the other in the fixed order: every event  *)
(* and every collaborator call of a phase comes after the terminal         *)
(* step_status of the phase before it, and none of an earlier phase comes  *)
(* after one of a later phase.  Stated on neighbours in the log: phases    *)
(* never go back, and where the log passes to a later phase, that phase is *)
(* the next one or the driver's handler, and the terminal step_status of   *)
(* the phase before it has been emitted.                                   *)
(***************************************************************************)
C4_PhasesSequential ==
    /\ log # <<>> => log[1].phase = "query_analysis"
    /\ \A j \in 2..Len(log) :
           LET m == PhaseIndex[log[j - 1].phase]
               n == PhaseIndex[log[j].phase]
           IN  /\ m <= n
               /\ (m < n /\ log[j].phase # "driver") =>
                      /\ n = m + 1
                      /\ \E i \in 1..(j - 1) :
                             /\ log[i].type = "step_status"
                             /\ log[i].step = Steps[m]
                             /\ IsTerminal(log[i])

\* a finished run in which every phase called its collaborator
C4_Witness ==
    /\ pc = "finished"
    /\ \A name \in {"generate_content", "lookup_entity_intel", "bfs_collect_evidence",
                    "semantic_search", "keyword_search_evidence",
                    "generate_content_stream"} : CallsOf(name) # <<>>
    /\ \E i \in DOMAIN log : /\ log[i].kind = "call"
                             /\ log[i].phase = "keyword_search"
                             /\ log[i].type = "semantic_search"

\* the details with which a terminal step_status reports a failure
FailureDetails ==
    {"fallback", "exception", "all_failed", "passes_with_errors", "generation_failed"}

(***************************************************************************)
(* C5 as stated: a collaborator call that fails inside a phase shows in    *)
(* the phase's terminal step_status (status error, or a detail reporting   *)
(* the failure), and the later phases still run.                           *)
(***************************************************************************)
C5_FailuresVisible ==
    (pc = "finished" /\ ~Crashed) =>
        \A step \in failed_calls \cap StepSet :
            LET st == StatusEvents(step)
                last == st[Len(st)]
            IN  /\ st # <<>>
                /\ IsTerminal(last)
                /\ last.status = "error" \/ last.detail \in FailureDetails
                /\ \A later \in StepSet :
                       PhaseIndex[later] > PhaseIndex[step] => HasTerminal(later)

\* no chunk, no graph evidence, no entity, no keyword match
NoEvidence ==
    /\ all_context_chunks = <<>>
    /\ graph_evidence = <<>>
    /\ ~entity_intel.found
    /\ keyword_results = <<>>

(***************************************************************************)
(* C6 as stated: a run that reaches the end of the keyword search with no  *)
(* evidence, whether phases failed or found nothing, emits exactly one     *)
(* text event (no information found) and done, and calls neither the       *)
(* streaming generation nor the follow-up generation.                      *)
(***************************************************************************)
C6_NoEvidenceNoGeneration ==
    (pc = "finished" /\ NoEvidence /\ HasTerminal("keyword_search")) =>
        /\ Len(EventsOfType("text")) = 1
        /\ EventsOfType("text")[1].detail = "no_information"
        /\ log[Len(log)].type = "done"
        /\ CallsOf("generate_content_stream") = <<>>
        /\ \A i \in DOMAIN log : log[i].kind = "call" => log[i].detail # "followup"

\* a text with every run of whitespace collapsed and the ends stripped
NormalizeWs(text) ==
    Strip(CollapseWs(text))

(***************************************************************************)
(* C7 as stated: two chunks whose texts are identical up to whitespace     *)
(* normalization contribute only one entry to the session's chunk pool,    *)
(* for chunks of any length and whichever pass or phase produced them.     *)
(***************************************************************************)
C7_OneEntryPerNormalizedText ==
    \A i, j \in DOMAIN all_context_chunks :
        i < j => NormalizeWs(all_context_chunks[i].text)
                     # NormalizeWs(all_context_chunks[j].text)

\* the call returned the id of one of the nodes with these indices
ReturnsOneOf(hits) ==
    \E i \in hits : r_result = Some(r_nodes[i].id)

(***************************************************************************)
(* C8: find_entity_id applies exact-label > partial-label > alias > id     *)
(* over the whole node list: the returned id belongs to a node matching    *)
(* the earliest rule that any node of the list matches, for every          *)
(* combination of rules with matches and every node order; 'jane doe'      *)
(* resolves to the node labelled 'Jane Doe'.                               *)
(***************************************************************************)
C8_EarliestRuleWins ==
    r_pc = "returned" =>
        LET exact == ExactHits(r_nodes, Normalize(r_name))
            partial == PartialHits(r_nodes, Normalize(r_name))
            alias == AliasHits(r_nodes, Normalize(r_name))
            byid == IdHits(r_nodes, Normalize(r_name))
        IN  /\ exact # {} => ReturnsOneOf(exact)
            /\ (exact = {} /\ partial # {}) => ReturnsOneOf(partial)
            /\ (exact = {} /\ partial = {} /\ alias # {}) => ReturnsOneOf(alias)
            /\ (exact = {} /\ partial = {} /\ alias = {} /\ byid # {})
                   => ReturnsOneOf(byid)
            /\ (r_name = QueryJaneDoe /\ \E i \in DOMAIN r_nodes : r_nodes[i] = NodeJane)
                   => r_result = Some(NodeJane.id)

\* 'jane doe' against a list that holds an alias match and a partial-label match
\* before the node labelled 'Jane Doe'
C8_Witness ==
    /\ r_pc = "returned"
    /\ r_name = QueryJaneDoe
    /\ r_nodes = <<NodeBob, NodeSmith, NodeJane>>
    /\ r_result = Some(NodeJane.id)

(***************************************************************************)
(* C9 as stated: when no label rule and no alias rule matches any node, a  *)
(* query whose normalized form with spaces replaced by underscores equals  *)
(* a node's id (e.g. 'jane doe 2' against id jane_doe_2) resolves to that  *)
(* node.                                                                   *)
(***************************************************************************)
C9_IdMatchResolves ==
    r_pc = "returned" =>
        LET name_norm == Normalize(r_name)
            byid == {i \in DOMAIN r_nodes : r_nodes[i].id = ReplaceSpaces(name_norm)}
        IN  (/\ ExactHits(r_nodes, Normalize(r_name)) = {}
             /\ PartialHits(r_nodes, Normalize(r_name)) = {}
             /\ AliasHits(r_nodes, Normalize(r_name)) = {}
             /\ byid # {})
                => ReturnsOneOf(byid)

\* every sequence of distinct node ids
SimpleSequences ==
    {p \in UNION {[1..n -> GraphNodes] : n \in 2..Cardinality(GraphNodes)} :
        \A i, j \in DOMAIN p : i # j => p[i] # p[j]}

\* the graph, read as undirected, has an edge between a and b
Joined(a, b) ==
    \E i \in DOMAIN f_edges :
        \/ f_edges[i].source = a /\ f_edges[i].target = b
        \/ f_edges[i].source = b /\ f_edges[i].target = a

\* the simple node sequences of 1..max_hops edges between start and end
SimplePaths ==
    {p \in SimpleSequences :
        /\ Len(p) - 1 <= f_max_hops
        /\ p[1] = f_start
        /\ p[Len(p)] = f_end
        /\ \A i \in 1..(Len(p) - 1) : Joined(p[i], p[i + 1])}

Min(a, b) ==
    IF a <= b THEN a ELSE b

\* the undirected edges are exactly A-B, B-C, C-D
IsChainABCD ==
    /\ Joined("A", "B") /\ Joined("B", "C") /\ Joined("C", "D")
    /\ ~Joined("A", "C") /\ ~Joined("B", "D") /\ ~Joined("A", "D")

(***************************************************************************)
(* C10: for start # end, find_paths returns a non-empty list exactly when  *)
(* the graph, read as undirected, has a simple path of 1..max_hops edges   *)
(* between start and end, and it returns min(max_paths, number of such     *)
(* simple node sequences) paths; for edges A-B, B-C, C-D it returns one    *)
(* 3-hop path for (A, D, max_hops 4) and the empty list for (A, D,         *)
(* max_hops 2), whatever the stored direction of each edge.                *)
(***************************************************************************)
C10_PathCount ==
    (f_pc = "returned" /\ f_start # f_end) =>
        /\ f_visited_paths # <<>> <=> SimplePaths # {}
        /\ Len(f_visited_paths) = Min(f_max_paths, Cardinality(SimplePaths))
        /\ (IsChainABCD /\ f_start = "A" /\ f_end = "D" /\ f_max_hops = 4) =>
               /\ Len(f_visited_paths) = 1
               /\ Len(f_visited_paths[1]) - 1 = 3
        /\ (IsChainABCD /\ f_start = "A" /\ f_end = "D" /\ f_max_hops = 2) =>
               f_visited_paths = <<>>

\* the chain with B-C stored as C -> B, searched with max_hops 4
C10_Witness ==
    /\ f_pc = "returned"
    /\ f_edges = <<Edge("A", "B"), Edge("C", "B"), Edge("C", "D")>>
    /\ f_max_hops = 4
    /\ Len(f_visited_paths) = 1
    /\ [i \in DOMAIN f_visited_paths[1] |-> f_visited_paths[1][i].node]
           = <<"A", "B", "C", "D">>

(***************************************************************************)
(* C11: find_paths_narrative never invokes find_paths when either name is  *)
(* unresolved or both names resolve to the same node id; it returns the    *)
(* 'could not find entities' or 'refer to the same entity' message         *)
(* instead. find_paths itself returns the empty list when start == end or  *)
(* when either id has no edge in the graph.                                *)
(***************************************************************************)
C11_NarrativeShortCircuits ==
    /\ n_pc # "off" =>
           LET id_a == find_entity_id(n_graph.nodes, n_name_a)
               id_b == find_entity_id(n_graph.nodes, n_name_b)
           IN  /\ (Falsy(id_a) \/ Falsy(id_b)) =>
                      /\ f_pc = "off"
                      /\ n_pc = "returned" => n_result.kind = "could_not_find"
               /\ (~Falsy(id_a) /\ ~Falsy(id_b) /\ id_a = id_b) =>
                      /\ f_pc = "off"
                      /\ n_pc = "returned" => n_result.kind = "same_entity"
    /\ (/\ f_pc = "returned"
        /\ \/ f_start = f_end
           \/ f_start \notin EdgeEnds(f_edges)
           \/ f_end \notin EdgeEnds(f_edges))
           => f_visited_paths = <<>>

\* 'Acme Corp' and 'acme' resolve to the same node of a graph that has edges at it
C11_Witness ==
    /\ n_pc = "returned"
    /\ n_id_a = Some(IdAcme)
    /\ n_id_b = Some(IdAcme)
    /\ n_graph.edges # <<>>
    /\ n_result.kind = "same_entity"
    /\ f_pc = "off"

(***************************************************************************)
(* C20: Pass 1 of deduplicate groups the nodes by (normalize(label),       *)
(* upper-cased type); in each group the canonical node is the one with the *)
(* longest description, the first in input order on ties; its alias set    *)
(* becomes the union of every member's label and aliases minus the         *)
(* canonical's own label; and the remap table sends every member id of the *)
(* group to the canonical id.                                              *)
(***************************************************************************)
C20_Pass1Canonical ==
    d_pc = "pass2" =>
        LET rows == d_raw_nodes
            keys == GroupKeys(rows)
            Members(i) == {j \in DOMAIN rows : keys[j] = keys[i]}
            Leads(c, i) ==
                /\ c \in Members(i)
                /\ \A j \in Members(i) :
                       /\ Len(rows[j].description) <= Len(rows[c].description)
                       /\ Len(rows[j].description) = Len(rows[c].description) => c <= j
        IN  /\ DOMAIN d_remap = {rows[i].id : i \in DOMAIN rows}
            /\ Len(d_merged) = Cardinality({keys[i] : i \in DOMAIN rows})
            /\ \A i \in DOMAIN rows :
                   \E c \in DOMAIN rows :
                       /\ Leads(c, i)
                       /\ d_remap[rows[i].id] = rows[c].id
                       /\ \E k \in DOMAIN d_merged :
                              /\ d_merged[k].id = rows[c].id
                              /\ d_merged[k].label = rows[c].label
                              /\ d_merged[k].description = rows[c].description
                              /\ d_merged[k].aliases =
                                     (UNION {{rows[j].label} \cup rows[j].aliases :
                                                j \in Members(i)}) \ {rows[c].label}

\* Pass 1 has run on a store in which the two longest descriptions of a group of
\* three are equally long, and the first of them in input order became canonical
C20_Witness ==
    /\ d_pc = "pass2"
    /\ Len(d_raw_nodes) >= 3
    /\ d_raw_nodes[1] = RowAcme3
    /\ d_raw_nodes[2] = RowAcme1
    /\ d_remap["acme1"] = "acme3"
    /\ d_remap["acme2"] = "acme3"
    /\ \E k \in DOMAIN d_merged :
           /\ d_merged[k].id = "acme3"
           /\ RowAcme2.label \in d_merged[k].aliases
           /\ RowAcme3.label \notin d_merged[k].aliases

\* the run that has just returned completed: it answered with counts, not status 500
RunCompleted ==
    /\ d_pc = "returned"
    /\ d_reports # <<>>
    /\ d_reports[Len(d_reports)].status = "ok"

(***************************************************************************)
(* C13 as stated: after any completed deduplicate run, on any input store, *)
(* no edge in the store has source == target and no two edges share the    *)
(* same (source, predicate, target) key.                                   *)
(***************************************************************************)
C13_EdgeSafety ==
    RunCompleted =>
        /\ \A i \in DOMAIN s_edges : s_edges[i].source # s_edges[i].target
        /\ \A i, j \in DOMAIN s_edges :
               (/\ s_edges[i].source = s_edges[j].source
                /\ s_edges[i].predicate = s_edges[j].predicate
                /\ s_edges[i].target = s_edges[j].target) => i = j

\* the rows of a table, as a set
RowSet(table) ==
    {table[i] : i \in DOMAIN table}

(***************************************************************************)
(* C12 as stated: when deduplicate runs twice in succession on the same    *)
(* store with no write in between, the second run reports merged = 0,      *)
(* removed_nodes = 0 and removed_edges = 0 and leaves the node and edge    *)
(* sets unchanged, for any answers the external text model gives in either *)
(* run.                                                                    *)
(***************************************************************************)
C12_SecondRunIsNoOp ==
    (d_pc = "returned" /\ Len(d_reports) = 2) =>
        /\ d_reports[2].status = "ok"
        /\ d_reports[2].merged = 0
        /\ d_reports[2].removed_nodes = 0
        /\ d_reports[2].removed_edges = 0
        /\ d_reports[1].status = "ok" =>
               /\ RowSet(s_nodes) = RowSet(d_reports[1].nodes)
               /\ RowSet(s_edges) = RowSet(d_reports[1].edges)

(***************************************************************************)
(* SpecDedupConcurrent: a deduplicate run interleaved with add_elements    *)
(***************************************************************************)
\* a node as extraction hands it to add_elements
NewNode(id, label, entityType, description) ==
    [id |-> id,
     data |-> [label |-> label, entityType |-> entityType, description |-> description,
               aliases |-> {}]]

\* an edge as extraction hands it to add_elements
NewEdge(id, source, predicate, target) ==
    [id |-> id, source |-> source, target |-> target, data |-> [predicate |-> predicate]]

\* node_records: the columns of the nodes table the run reads back
NodeRecord(n) ==
    NodeRow(n.id, n.data.label, n.data.entityType, n.data.description, n.data.aliases)

\* edge_records: the columns of the edges table the run reads back
EdgeRecord(e) ==
    EdgeRow(e.id, e.source, e.data.predicate, e.target)

\* 1. Upsert Nodes
AddUpsertNodes ==
    /\ a_pc = "call"
    /\ s_nodes' = Upsert(s_nodes, [i \in DOMAIN a_new_nodes |-> NodeRecord(a_new_nodes[i])])
    /\ a_pc' = "nodes_done"
    /\ UNCHANGED <<s_edges, a_new_nodes, a_new_edges, dedupVars, sessionVars, poolVars,
                   resolveVars, pathVars, narrativeVars, endpointVars, bfsVars, uploadVars>>

\* 2. Upsert Edges
AddUpsertEdges ==
    /\ a_pc = "nodes_done"
    /\ s_edges' = Upsert(s_edges, [i \in DOMAIN a_new_edges |-> EdgeRecord(a_new_edges[i])])
    /\ a_pc' = "returned"
    /\ UNCHANGED <<s_nodes, a_new_nodes, a_new_edges, dedupVars, sessionVars, poolVars,
                   resolveVars, pathVars, narrativeVars, endpointVars, bfsVars, uploadVars>>

\* what an extraction writes: every edge joins two of the nodes written with it
Extractions ==
    {[nodes |-> <<NewNode("acme2", RowAcme2.label, <<"O","R","G">>, <<"d">>),
                  NewNode("john", RowJohn.label, <<"P","E","R","S","O","N">>, <<"d">>)>>,
      edges |-> <<NewEdge("e-acme2-sued-john", "acme2", "sued", "john")>>],
     [nodes |-> <<NewNode("zed", <<"Z","e","d">>, <<"P","E","R","S","O","N">>, <<>>),
                  NewNode("john", RowJohn.label, <<"P","E","R","S","O","N">>, <<"d","d">>)>>,
      edges |-> <<NewEdge("e-john-knows-zed", "john", "knows", "zed"),
                  NewEdge("e-zed-knows-john", "zed", "knows", "john")>>]}

InitDedupConcurrent ==
    /\ SessionIdle
    /\ ResolveIdle
    /\ BfsIdle
    /\ UploadIdle
    /\ PathsIdle
    /\ NarrativeIdle
    /\ EndpointsIdle
    /\ s_nodes \in {<<RowJohn>>, <<RowAcme1, RowAcme2>>, <<RowAcme2, RowJohn, RowAcme1>>}
    /\ s_edges \in EdgeTables(s_nodes)
    /\ d_client = FALSE
    /\ d_pc = "idle"
    /\ DedupLocalsInit
    /\ a_pc = "call"
    /\ \E x \in Extractions :
           /\ a_new_nodes = x.nodes
           /\ a_new_edges = x.edges

\* the steps of a run without a text model client
NextDedupNoClient ==
    \/ DedupFetchNodes
    \/ DedupFetchEdges
    \/ DedupPass1
    \/ DedupPass2Skip
    \/ DedupPlan
    \/ DedupRewireSource
    \/ DedupRewireTarget
    \/ DedupSelectSelfLoops
    \/ DedupDeleteSelfLoops
    \/ DedupFindDuplicateEdges
    \/ DedupDeleteDuplicateEdges
    \/ DedupUpsertCanonical
    \/ DedupDeleteEdgesBySource
    \/ DedupDeleteEdgesByTarget
    \/ DedupDeleteNodes
    \/ DedupReturn

NextDedupConcurrent ==
    \/ NextDedupNoClient
    \/ AddUpsertNodes
    \/ AddUpsertEdges

SpecDedupConcurrent ==
    InitDedupConcurrent /\ [][NextDedupConcurrent]_vars

C19_ReturnedPathsWellFormed ==
    /\ Len(f_visited_paths) <= f_max_paths
    /\ \A p \in DOMAIN f_visited_paths :
           LET path == f_visited_paths[p]
           IN  /\ path[1].node = f_start
               /\ path[1].edge = NoEdge
               /\ path[Len(path)].node = f_end
               /\ \A i \in 1..(Len(path) - 1) : path[i].node # f_end
               /\ \A i, j \in DOMAIN path : path[i].node = path[j].node => i = j
               /\ Len(path) - 1 >= 1
               /\ Len(path) - 1 <= f_max_hops
               /\ \A i \in 2..Len(path) :
                      /\ \E k \in DOMAIN f_edges : f_edges[k] = path[i].edge
                      /\ {path[i].edge.source, path[i].edge.target}
                             = {path[i - 1].node, path[i].node}

\* find_paths has returned two paths that pass through the same intermediate node,
\* one of them of three edges
C19_Witness ==
    /\ f_pc = "returned"
    /\ \E p, q \in DOMAIN f_visited_paths :
           /\ p # q
           /\ Len(f_visited_paths[q]) = 4
           /\ \E i \in 2..(Len(f_visited_paths[p]) - 1), j \in 2..(Len(f_visited_paths[q]) - 1) :
                  f_visited_paths[p][i].node = f_visited_paths[q][j].node

\* the positions of the stored edges that join two nodes, in either direction
EdgesBetween(edges, a, b) ==
    {i \in DOMAIN edges : {edges[i].source, edges[i].target} = {a, b}}

\* the query was detected as a connection query and both names resolved, to two
\* different nodes
ResolvedDistinct ==
    /\ q_pc = "returned"
    /\ q_match # None
    /\ n_id_a # None
    /\ n_id_b # None
    /\ n_id_a # n_id_b

\* the context of the prompt starts with the connection narrative, the narrative has
\* a hop with predicate p, and the document context follows it
NarrativeFirstWith(p) ==
    /\ q_response.kind = "prompt"
    /\ Len(q_response.full_context) = 2
    /\ q_response.full_context[1].part = "GRAPH CONNECTIONS FOUND"
    /\ q_response.full_context[2].part = "DOCUMENT CONTEXT"
    /\ q_response.full_context[1].content.kind = "paths"
    /\ \E i \in DOMAIN q_response.full_context[1].content.paths :
           \E j \in DOMAIN q_response.full_context[1].content.paths[i] :
               q_response.full_context[1].content.paths[i][j].predicate = p

CandidatePlaces ==
    {i \in DOMAIN p_matches : p_matches[i].has_metadata /\ TextOf(p_matches[i]) # ""}

(***************************************************************************)
(* C15: _semantic_search_pass returns at most rerank_top_n candidates; the *)
(* re-ranking function is invoked only when one is supplied and the        *)
(* candidate count exceeds rerank_top_n; and if re-ranking raises, the     *)
(* result is the first rerank_top_n candidates in the vector index's       *)
(* original order and no exception propagates to the caller.               *)
(***************************************************************************)
C15_RerankBoundedWithFallback ==
    /\ p_rerank_calls > 0 =>
           /\ p_rerank_fn # "None"
           /\ Cardinality(CandidatePlaces) > p_rerank_top_n
    /\ (p_pc = "returned" /\ p_outcome = "returned") =>
           Len(p_candidates) <= p_rerank_top_n
    /\ (p_pc = "returned" /\ p_rerank_raised) =>
           /\ p_outcome = "returned"
           /\ Len(p_candidates) = p_rerank_top_n
           /\ \A k \in DOMAIN p_candidates :
                  /\ p_candidates[k].rank \in CandidatePlaces
                  /\ p_candidates[k].text = TextOf(p_matches[p_candidates[k].rank])
                  /\ Cardinality({i \in CandidatePlaces : i < p_candidates[k].rank}) = k - 1

\* the re-ranking function was called and raised; the one candidate returned is the
\* first match with text, which is the second match of the index
C15_Witness ==
    /\ p_pc = "returned"
    /\ p_rerank_raised
    /\ p_rerank_calls = 1
    /\ p_rerank_top_n = 1
    /\ Cardinality(CandidatePlaces) = 2
    /\ Len(p_candidates) = 1
    /\ p_candidates[1].rank = 2

(***************************************************************************)
(* The investigate endpoints: investigate and investigate_case up to the   *)
(* streaming response, followed by the first phase of the generator the    *)
(* response iterates. h_index, h_client and h_supabase say whether the     *)
(* module's client of that name was initialised (is not None).             *)
(***************************************************************************)
NoClientMissing ==
    ""

\* the three guards in their order; the variant that forgets the relational store
MissingClientStoreUnchecked(has_index, has_client, has_supabase) ==
    IF ~has_index THEN "Pinecone index not initialized."
    ELSE IF ~has_client THEN "GenAI client not initialized."
    ELSE NoClientMissing

\* the three guards in their order: the error of the first client that is missing
MissingClient(has_index, has_client, has_supabase) ==
    IF ~has_index THEN "Pinecone index not initialized."
    ELSE IF ~has_client THEN "GenAI client not initialized."
    ELSE IF ~has_supabase THEN "Supabase client not initialized."
    ELSE NoClientMissing

JSONResponse(status_code, error) ==
    [kind |-> "error", status |-> status_code, error |-> error]

\* an exception that leaves the handler: the framework answers 500
Unhandled ==
    [kind |-> "error", status |-> 500, error |-> "Internal Server Error"]

handlerFrame ==
    <<pc, mode, log, analysisVars, intelVars, graph_evidence, errors_log, semVars, kwVars,
      synthVars, failed_calls, poolVars, resolveVars, pathVars, narrativeVars, writerVars,
      queryVars, searchVars, bfsVars, uploadVars, h_endpoint, h_index, h_client, h_supabase, h_entity_id,
      stream_cap>>

\* both endpoints: if not index / if not client / if not supabase
HandlerGuards ==
    /\ h_pc = "call"
    /\ \E missing \in {MissingClient(h_index, h_client, h_supabase)} :
          IF missing # NoClientMissing
          THEN /\ h_response' = JSONResponse(503, missing)
               /\ h_pc' = "returned"
          ELSE /\ h_pc' = IF h_endpoint = "investigate" THEN "entity" ELSE "case"
               /\ UNCHANGED h_response
    /\ UNCHANGED <<h_case_context, h_store_calls, handlerFrame>>

\* investigate: the entity context, fetched only when the request names an entity; an
\* exception of the select is printed and the context stays None
InvestigateEntityContext ==
    /\ h_pc = "entity"
    /\ IF h_entity_id
       THEN /\ h_store_calls' = Append(h_store_calls, "nodes")
            /\ h_case_context' \in {"None", "entity"}
       ELSE UNCHANGED <<h_case_context, h_store_calls>>
    /\ h_pc' = "stream"
    /\ UNCHANGED <<h_response, handlerFrame>>

\* investigate_case: the case is loaded outside every try; 404 when there is none
InvestigateCaseLoad ==
    /\ h_pc = "case"
    /\ h_store_calls' = Append(h_store_calls, "cases")
    /\ \/ /\ h_response' = Unhandled
          /\ h_pc' = "returned"
       \/ /\ h_response' = JSONResponse(404, "Case not found")
          /\ h_pc' = "returned"
       \/ /\ h_pc' = "case_context"
          /\ UNCHANGED h_response
    /\ UNCHANGED <<h_case_context, handlerFrame>>

\* investigate_case: notes, pinned entities and, when there are any, their rows and
\* the relationships between them
InvestigateCaseContext ==
    /\ h_pc = "case_context"
    /\ \E selects \in {<<"case_evidence", "case_graph_entities">>,
                       <<"case_evidence", "case_graph_entities", "nodes", "edges">>} :
       \E done \in 1..Len(selects) :
          /\ h_store_calls' = h_store_calls \o SubSeq(selects, 1, done)
          /\ \/ /\ h_response' = Unhandled
                /\ h_pc' = "returned"
                /\ UNCHANGED h_case_context
             \/ /\ done = Len(selects)
                /\ h_case_context' = "case"
                /\ h_pc' = "stream"
                /\ UNCHANGED h_response
    /\ UNCHANGED handlerFrame

\* return StreamingResponse(run_investigation(...)): the generator exists from here
HandlerStream ==
    /\ h_pc = "stream"
    /\ pc = "off"
    /\ h_response' = [kind |-> "stream", status |-> 200, error |-> ""]
    /\ h_pc' = "returned"
    /\ pc' = "start"
    /\ UNCHANGED <<mode, log, analysisVars, intelVars, graph_evidence, errors_log, semVars,
                   kwVars, synthVars, failed_calls, poolVars, resolveVars, pathVars,
                   narrativeVars, writerVars, queryVars, searchVars, bfsVars, uploadVars, h_endpoint,
                   h_index,
                   h_client, h_supabase, h_entity_id, h_case_context, h_store_calls,
                   stream_cap>>

\* investigate passes request.mode; investigate_case leaves the default
InitInvestigate ==
    /\ pc = "off"
    /\ SessionInit
    /\ ResolveIdle
    /\ BfsIdle
    /\ UploadIdle
    /\ PathsIdle
    /\ NarrativeIdle
    /\ DedupIdle
    /\ QueryIdle
    /\ SearchIdle
    /\ h_pc = "call"
    /\ h_endpoint \in {"investigate", "investigate_case"}
    /\ mode \in (IF h_endpoint = "investigate" THEN {"files_only", "files_web"}
                 ELSE {"files_only"})
    /\ h_index \in BOOLEAN
    /\ h_client \in BOOLEAN
    /\ h_supabase \in BOOLEAN
    /\ h_entity_id \in (IF h_endpoint = "investigate" THEN BOOLEAN ELSE {FALSE})
    /\ h_case_context = "None"
    /\ h_store_calls = <<>>
    /\ h_response = [kind |-> "none", status |-> 0, error |-> ""]

NextInvestigate ==
    \/ HandlerGuards
    \/ InvestigateEntityContext
    \/ InvestigateCaseLoad
    \/ InvestigateCaseContext
    \/ HandlerStream
    \/ StartQueryAnalysis
    \/ QueryAnalysis

SpecInvestigate ==
    InitInvestigate /\ [][NextInvestigate]_vars

\* one of the three clients was not initialised
ClientMissing ==
    ~(h_index /\ h_client /\ h_supabase)

(***************************************************************************)
(* C18: if any required collaborator client (vector index, text model,     *)
(* relational store) is unavailable, the investigate endpoints answer with *)
(* an error as their first step and no part of the pipeline runs: no event *)
(* is emitted and no collaborator call is issued.                          *)
(***************************************************************************)
C18_MissingClientAnswersAtOnce ==
    ClientMissing =>
        /\ h_pc \in {"call", "returned"}
        /\ h_pc = "returned" =>
               /\ h_response.kind = "error"
               /\ h_response.status = 503
               /\ \/ h_response.error = "Pinecone index not initialized." /\ ~h_index
                  \/ h_response.error = "GenAI client not initialized." /\ ~h_client
                  \/ h_response.error = "Supabase client not initialized." /\ ~h_supabase
        /\ pc = "off"
        /\ log = <<>>
        /\ h_store_calls = <<>>

\* the case endpoint with only the relational store missing: 503, nothing ran
C18_Witness ==
    /\ h_endpoint = "investigate_case"
    /\ h_index
    /\ h_client
    /\ ~h_supabase
    /\ h_pc = "returned"
    /\ h_response = JSONResponse(503, "Supabase client not initialized.")
    /\ log = <<>>
    /\ h_store_calls = <<>>

(***************************************************************************)
(* Specification of an investigation whose caller may disconnect: the      *)
(* streaming response stops iterating run_investigation, whose generator   *)
(* is cancelled where it is suspended. CancelledError is not an Exception, *)
(* so the except clause of run_investigation does not run. Nothing in the  *)
(* generator tells the _produce_chunks thread, and a thread cannot be      *)
(* cancelled from outside.                                                 *)
(***************************************************************************)
Disconnect ==
    /\ pc \notin {"finished", "cancelled"}
    /\ pc' = "cancelled"
    /\ UNCHANGED <<mode, log, analysisVars, intelVars, graph_evidence, errors_log, semVars,
                   kwVars, synthVars, failed_calls, poolVars, otherSpecs>>

NextDisconnect ==
    \/ Next
    \/ Disconnect

SpecDisconnect ==
    Init /\ [][NextDisconnect]_vars

(***************************************************************************)
(* C16: if the caller disconnects mid-stream at any point of an            *)
(* investigation, the controller starts no further phase and issues no     *)
(* further model or store call after the disconnect, and the background    *)
(* producer reads no further chunk of the synthesis stream.                *)
(***************************************************************************)
C16_NothingAfterDisconnect ==
    [][pc = "cancelled" => (pc' = pc /\ log' = log /\ produced' = produced)]_vars

\* the calls of the first semantic pass: the search function on the raw query
Pass1Calls ==
    SelectSeq(log, LAMBDA e : /\ e.kind = "call"
                              /\ e.type = "semantic_search"
                              /\ e.phase = "semantic_search"
                              /\ e.detail = "query")

\* the last step_status event of a step
LastStatus(step) ==
    StatusEvents(step)[Len(StatusEvents(step))]

(***************************************************************************)
(* C27: if the query-analysis model call raises or its output cannot be    *)
(* parsed into a JSON object, the query_analysis step ends with status     *)
(* error and the session continues with an empty primary entity, no        *)
(* secondary entities, no reformulations and the raw query as sole key     *)
(* term; EntityIntel and GraphTraversal are skipped (no lookup, no         *)
(* traversal) and SemanticSearch still runs Pass 1 with the raw query.     *)
(***************************************************************************)
C27_AnalysisFailureFallsBack ==
    "query_analysis" \in failed_calls =>
        /\ LastStatus("query_analysis").status = "error"
        /\ primary_entity = <<>>
        /\ secondary_entities = JList(<<>>)
        /\ reformulated_queries = JList(<<>>)
        /\ key_terms = JList(<<"query.strip()">>)
        /\ CallsOf("lookup_entity_intel") = <<>>
        /\ CallsOf("bfs_collect_evidence") = <<>>
        /\ HasTerminal("entity_intel") => LastStatus("entity_intel").detail = "skipped"
        /\ HasTerminal("graph_traversal") => LastStatus("graph_traversal").detail = "skipped"
        /\ pc \notin {"B_entry", "C_entry", "D_entry", "D_pass1"} => Len(Pass1Calls) = 1
        /\ pc \notin {"crash", "crash_done"}
        /\ ~Crashed

\* the analysis failed and the run went on to its end: both entity phases were
\* skipped and the first semantic pass found a chunk
C27_Witness ==
    /\ "query_analysis" \in failed_calls
    /\ pc = "finished"
    /\ LastStatus("entity_intel").detail = "skipped"
    /\ LastStatus("graph_traversal").detail = "skipped"
    /\ Len(Pass1Calls) = 1
    /\ all_context_chunks # <<>>

(***************************************************************************)
(* C28: the entity lookup is issued only when the primary entity is        *)
(* non-empty, and the graph traversal only when EntityIntel found an       *)
(* entity; in every session state non-empty graph evidence implies that an *)
(* entity was found, and a found entity implies a non-empty primary        *)
(* entity.                                                                 *)
(***************************************************************************)
C28_LookupAndTraversalGuarded ==
    /\ CallsOf("lookup_entity_intel") # <<>> => primary_entity # <<>>
    /\ CallsOf("bfs_collect_evidence") # <<>> => entity_intel.found
    /\ graph_evidence # <<>> => entity_intel.found
    /\ entity_intel.found => primary_entity # <<>>

\* a session that looked the primary entity up, found it and collected an edge
C28_Witness ==
    /\ primary_entity = Acme
    /\ entity_intel.found
    /\ graph_evidence # <<>>
    /\ Len(CallsOf("lookup_entity_intel")) = 1
    /\ Len(CallsOf("bfs_collect_evidence")) = 1

\* the passes of the semantic search that were issued, in order
SemanticPasses ==
    SelectSeq(log, LAMBDA e : /\ e.kind = "call"
                              /\ e.type = "semantic_search"
                              /\ e.phase = "semantic_search")

\* the passes the phase issues when none is prevented: pass 1, and passes 2 and 3
\* when they have a query
PassesDue ==
    1 + (IF Pass2Query # "" THEN 1 ELSE 0) + (IF Pass3Query # "" THEN 1 ELSE 0)

\* every chunk accumulated so far is still there, in its place
ChunksKept ==
    /\ Len(all_context_chunks) <= Len(all_context_chunks')
    /\ \A i \in DOMAIN all_context_chunks : all_context_chunks'[i] = all_context_chunks[i]

C30_PassesIssued ==
    /\ Len(SemanticPasses) <= 3
    /\ SemanticPasses # <<>> => SemanticPasses[1].detail = "query"
    /\ pc \in {"D_pass2", "D_pass3"} => SemanticPasses # <<>>
    /\ Len(errors) + pass_count = Len(SemanticPasses)
    /\ HasTerminal("semantic_search") => Len(SemanticPasses) = PassesDue

(***************************************************************************)
(* C30: SemanticSearch always issues Pass 1 with the raw query and issues  *)
(* at most 3 passes in total; an exception raised by one pass is caught    *)
(* and recorded, and neither prevents the later passes from being issued   *)
(* nor discards chunks accumulated by the other passes.                    *)
(***************************************************************************)
C30_PassFailuresIsolated ==
    []C30_PassesIssued /\ [][ChunksKept]_vars

\* pass 1 found a chunk, pass 2 raised, pass 3 was still issued and the chunk of
\* pass 1 is in the pool
C30_Witness ==
    /\ Len(SemanticPasses) = 3
    /\ errors = <<2>>
    /\ pass_count = 2
    /\ all_context_chunks = <<ChunkAB>>
    /\ HasTerminal("semantic_search")

\* the run got as far as streaming the report: the producer called the model
StreamingReached ==
    CallsOf("generate_content_stream") # <<>>

\* the events after the last text event (after the last running event when no
\* text was streamed at all)
AfterLastText ==
    LET ev == Events
        marks == {i \in DOMAIN ev : ev[i].type = "text"}
        runs == {i \in DOMAIN ev : ev[i].type = "step_status" /\ ev[i].status = "running"}
        from == IF marks # {} THEN marks ELSE runs
        last == CHOOSE i \in from : \A j \in from : j <= i
    IN  SubSeq(ev, last + 1, Len(ev))

\* what an event of the tail is: the step for a terminal step_status, else the type
Shape(e) ==
    IF e.type = "step_status" /\ IsTerminal(e) THEN e.step ELSE e.type

ShapesOf(evs) ==
    [i \in DOMAIN evs |-> Shape(evs[i])]

\* the follow-up part of a tail: one follow_ups event, or none
FollowUpParts ==
    {<<>>, <<"follow_ups">>}

(***************************************************************************)
(* C26 as stated: in every run that reaches report streaming, the events   *)
(* following the last streamed text are, in order, the synthesis terminal  *)
(* step_status, exactly one sources event, at most one follow_ups event,   *)
(* then done.                                                              *)
(***************************************************************************)
C26_TailIsStatusSourcesFollowUpsDone ==
    (pc = "finished" /\ StreamingReached) =>
        \E fu \in FollowUpParts :
            ShapesOf(AfterLastText) = <<"synthesis", "sources">> \o fu \o <<"done">>

\* the web search part of the tail: nothing in files_only mode; in files_web mode
\* the terminal status of the web_search step, then web_sources when there are any
WebParts ==
    IF mode = "files_web"
    THEN {<<"web_search">> \o (IF web_sources # <<>> THEN <<"web_sources">> ELSE <<>>)}
    ELSE {<<>>}

(***************************************************************************)
(* C26 amended: in every run that reaches report streaming, the events     *)
(* following the last streamed text are, in order, the synthesis terminal  *)
(* step_status; in files_web mode the terminal step_status of web_search   *)
(* and, when web sources were collected, one web_sources event; exactly    *)
(* one sources event; at most one follow_ups event; then done. No step     *)
(* after the streaming ends the run in the outer handler.                  *)
(***************************************************************************)
C26_TailWithWebPart ==
    /\ StreamingReached => (pc \notin {"crash", "crash_done"} /\ ~Crashed)
    /\ (pc = "finished" /\ StreamingReached) =>
           \E fu \in FollowUpParts, web \in WebParts :
               ShapesOf(AfterLastText)
                   = <<"synthesis">> \o web \o <<"sources">> \o fu \o <<"done">>

\* a files_web run whose stream carried web sources and whose follow-up generation
\* yielded no event: the tail is synthesis, web_search, web_sources, sources, done
C26_Witness ==
    /\ pc = "finished"
    /\ mode = "files_web"
    /\ StreamingReached
    /\ Len(CallsOf("generate_content")) = 2
    /\ ShapesOf(AfterLastText) = <<"synthesis", "web_search", "web_sources", "sources", "done">>

(***************************************************************************)
(* Specification of the synthesis phase alone, with a model stream of up   *)
(* to MaxStream + 1 chunks. It starts where the keyword search of a        *)
(* session ended with one chunk in the pool: query analysis succeeded      *)
(* without naming a primary entity, entity intel and graph traversal were  *)
(* skipped, Pass 1 returned the chunk.                                     *)
(***************************************************************************)
SynthesisEntryLog ==
    <<StepStatus("query_analysis", "running", ""),
      Call("generate_content", "analysis", "query_analysis"),
      StepStatus("query_analysis", "done", "analysis"),
      StepStatus("entity_intel", "done", "skipped"),
      StepStatus("graph_traversal", "done", "skipped"),
      StepStatus("semantic_search", "running", "pass1"),
      Call("semantic_search", "query", "semantic_search"),
      StepStatus("semantic_search", "running", "pass1_ok"),
      StepStatus("semantic_search", "running", "passes"),
      StepStatus("semantic_search", "done", "passes"),
      StepStatus("keyword_search", "running", ""),
      StepStatus("keyword_search", "done", "counts")>>

\* the session at the entry of the synthesis phase
SynthesisEntry ==
    /\ pc = "F_entry"
    /\ log = SynthesisEntryLog
    /\ primary_entity = <<>>
    /\ secondary_entities = JList(<<>>)
    /\ reformulated_queries = JList(<<>>)
    /\ key_terms = JList(<<"term">>)
    /\ entity_intel = NoIntel
    /\ graph_evidence = <<>>
    /\ discovered_entities = <<>>
    /\ all_context_chunks = <<ChunkAB>>
    /\ seen_texts = {ChunkAB.text}
    /\ errors_log = <<>>
    /\ errors = <<>>
    /\ pass_count = 1
    /\ kw_idx = 1
    /\ keyword_results = <<>>
    /\ chunk_queue = <<>>
    /\ producer = "idle"
    /\ produced = 0
    /\ synthesis_text_parts = <<>>
    /\ web_sources = <<>>
    /\ failed_calls = {}

InitSynthesis ==
    /\ mode \in {"files_only", "files_web"}
    /\ SynthesisEntry
    /\ stream_cap = MaxStream + 1
    /\ ResolveIdle
    /\ PathsIdle
    /\ ExtIdle

NextSynthesis ==
    \/ SynthesisStart
    \/ SynthesisContext
    \/ LaunchProducer
    \/ ProducerCall
    \/ ProducerChunk
    \/ ProducerStreamError
    \/ ProducerStreamEnd
    \/ ConsumeItem
    \/ JoinProducer
    \/ SynthesisFailedStatus
    \/ WebSearchDone
    \/ WebSources
    \/ Sources
    \/ FollowUps
    \/ Done

SpecSynthesis ==
    InitSynthesis /\ [][NextSynthesis]_vars

\* the text events of the synthesis phase, in the order they were yielded
SynthesisTexts ==
    SelectSeq(log, LAMBDA e : e.kind = "event" /\ e.type = "text" /\ e.phase = "synthesis")

\* the texts still waiting in the queue, in queue order
PendingTexts ==
    LET items == SelectSeq(chunk_queue, LAMBDA it : it.tag = "text")
    IN  [i \in DOMAIN items |-> items[i].val]

\* the error of the stream was put and the consumer has taken it
ErrorConsumed ==
    /\ "synthesis" \in failed_calls
    /\ \A i \in DOMAIN chunk_queue : chunk_queue[i].tag # "error"

\* the text events that carry a chunk: all of them, but for the error text
ChunkTextEvents ==
    IF ErrorConsumed /\ SynthesisTexts # <<>>
    THEN SubSeq(SynthesisTexts, 1, Len(SynthesisTexts) - 1)
    ELSE SynthesisTexts

\* every chunk text produced so far: emitted ones first, then the queued ones
TextsProduced ==
    [i \in DOMAIN ChunkTextEvents |-> ChunkTextEvents[i].detail] \o PendingTexts

\* the consumer loop is over
ConsumerLeft ==
    pc \notin {"F_entry", "F_context", "F_launch", "F_consume"}

\* at every moment: the chunk texts emitted and queued are in production order
\* without a repeat, a queued item can be taken while the stream is still read,
\* and once the consumer has left its loop no text is left behind, the error
\* text is the last text and the terminal status tells how the stream ended
C25_StreamState ==
    /\ \A i, j \in DOMAIN TextsProduced : i < j => TextsProduced[i] < TextsProduced[j]
    /\ \A i \in DOMAIN TextsProduced : TextsProduced[i] \in 1..produced
    /\ (pc = "F_consume" /\ chunk_queue # <<>>) => ENABLED ConsumeItem
    /\ ConsumerLeft => PendingTexts = <<>>
    /\ ErrorConsumed =>
          /\ ConsumerLeft
          /\ SynthesisTexts # <<>>
          /\ SynthesisTexts[Len(SynthesisTexts)].detail = "generation_error"
          /\ pc # "F_failed" => LastStatus("synthesis").status = "error"
    /\ (ConsumerLeft /\ ~ErrorConsumed) =>
          (pc # "F_join" => LastStatus("synthesis").status = "done")

\* a step changes the texts produced only by appending the text of the chunk
\* the producer has just read
C25_StreamStep ==
    \/ TextsProduced' = TextsProduced
    \/ /\ producer = "stream"
       /\ produced' = produced + 1
       /\ TextsProduced' = Append(TextsProduced, produced')

(***************************************************************************)
(* C25: during Synthesis every non-empty text chunk produced by the model  *)
(* stream is emitted as its own text event in production order, with no    *)
(* chunk lost, duplicated or reordered and without waiting for the end of  *)
(* the stream; if the stream fails midway, the chunks already produced are *)
(* still emitted before the error text, and the synthesis step ends with   *)
(* status error.                                                           *)
(***************************************************************************)
C25_ChunksStreamedInOrder ==
    []C25_StreamState /\ [][C25_StreamStep]_vars

\* two chunk texts were emitted, the first while the stream was still being read
\* (the second is still the only chunk after it), then the stream failed: the
\* error text follows them and the step ended with status error
C25_Witness ==
    /\ produced = MaxStream + 1
    /\ Len(ChunkTextEvents) = MaxStream + 1
    /\ ErrorConsumed
    /\ pc = "finished"
    /\ LastStatus("synthesis").status = "error"

\* a chunk text is on the event stream while the producer is still reading
C25_WitnessIncremental ==
    /\ producer = "stream"
    /\ ChunkTextEvents # <<>>
    /\ produced < stream_cap

(***************************************************************************)
(* bfs_collect_evidence (api/graph_ops.py)                                 *)
(***************************************************************************)
\* the largest edge cap a call is made with
MaxEdgesBound ==
    4

\* .limit(25) of each of the two edge queries, scaled to the model's stores
FetchLimit ==
    2

BfsEdge(id, s, t) ==
    [id |-> id, source |-> s, target |-> t]

\* the edges tables a traversal runs on: empty; a chain a-b-c-d with a shortcut
\* b-d; a hub with more
\* edges per direction than one query returns; a self-loop with parallel and
\* opposite edges; a cycle with a tail
BfsStores ==
    { <<>>,
      <<BfsEdge("e1", "a", "b"), BfsEdge("e2", "b", "c"), BfsEdge("e3", "c", "d"),
        BfsEdge("e4", "b", "d")>>,
      <<BfsEdge("e1", "a", "b"), BfsEdge("e2", "a", "c"), BfsEdge("e3", "a", "d"),
        BfsEdge("e4", "d", "a"), BfsEdge("e5", "c", "d")>>,
      <<BfsEdge("e1", "a", "a"), BfsEdge("e2", "a", "b"), BfsEdge("e3", "b", "a"),
        BfsEdge("e4", "a", "b"), BfsEdge("e5", "b", "c")>>,
      <<BfsEdge("e1", "a", "b"), BfsEdge("e2", "b", "c"), BfsEdge("e3", "c", "a"),
        BfsEdge("e4", "c", "d")>> }

BfsStarts ==
    {"a", "c", "zz"}

\* the rows at the positions `keep`, in table order
RowsAt(rows, keep) ==
    [k \in 1..Cardinality(keep) |->
        rows[CHOOSE i \in keep : Cardinality({j \in keep : j <= i}) = k]]

\* .limit(FetchLimit) without an order: any FetchLimit of the matching rows
Limited(rows) ==
    LET n == Min(Len(rows), FetchLimit)
    IN  {RowsAt(rows, keep) : keep \in {k \in SUBSET DOMAIN rows : Cardinality(k) = n}}

\* a traversal that puts a neighbor on the next frontier whenever an edge leads to it
NeighborNewAlways(neighbor, visited) ==
    TRUE

\* if neighbor not in visited_nodes
NeighborNew(neighbor, visited) ==
    neighbor \notin visited

\* the loop over the fetched rows of one node: st holds seen_edge_ids,
\* collected_edges, visited_nodes and next_frontier
RECURSIVE CollectRows(_, _, _)
CollectRows(rows, node_id, st) ==
    IF rows = <<>>
    THEN st
    ELSE LET e == Head(rows)
             neighbor == IF e.source = node_id THEN e.target ELSE e.source
             st1 == IF e.id \in st.seen
                    THEN st
                    ELSE [seen |-> st.seen \cup {e.id},
                          collected |-> Append(st.collected, e),
                          visited |-> st.visited \cup {neighbor},
                          next |-> IF NeighborNew(neighbor, st.visited)
                                   THEN Append(st.next, neighbor)
                                   ELSE st.next]
         IN  CollectRows(Tail(rows), node_id, st1)

bfsFrame ==
    <<sessionVars, poolVars, resolveVars, pathVars, narrativeVars, writerVars, endpointVars,
      uploadVars>>

bfsInputs ==
    <<b_edges, b_start, b_max_hops, b_max_edges>>

\* for _hop in range(max_hops), and the break at the head of its body
BfsHop ==
    /\ b_pc = "hop"
    /\ IF b_hop < b_max_hops /\ b_frontier # <<>>
          /\ Len(b_collected_edges) < b_max_edges
       THEN /\ b_hop' = b_hop + 1
            /\ b_next_frontier' = <<>>
            /\ b_idx' = 1
            /\ b_pc' = "node"
       ELSE /\ b_pc' = "return"
            /\ UNCHANGED <<b_hop, b_next_frontier, b_idx>>
    /\ UNCHANGED <<bfsInputs, b_frontier, b_visited_nodes, b_collected_edges,
                   b_seen_edge_ids, b_fetches, b_result, bfsFrame>>

\* one node of the frontier: the two edge queries and the loop over their rows
BfsFetch ==
    /\ b_pc = "node"
    /\ b_idx <= Len(b_frontier)
    /\ Len(b_collected_edges) < b_max_edges
    /\ LET node_id == b_frontier[b_idx]
       IN  \E edges_src \in Limited(SelectSeq(b_edges, LAMBDA e : e.source = node_id)),
              edges_tgt \in Limited(SelectSeq(b_edges, LAMBDA e : e.target = node_id)) :
              \E st \in {CollectRows(edges_src \o edges_tgt, node_id,
                                     [seen |-> b_seen_edge_ids,
                                      collected |-> b_collected_edges,
                                      visited |-> b_visited_nodes,
                                      next |-> b_next_frontier])} :
                 /\ b_seen_edge_ids' = st.seen
                 /\ b_collected_edges' = st.collected
                 /\ b_visited_nodes' = st.visited
                 /\ b_next_frontier' = st.next
                 /\ b_fetches' = Append(b_fetches, node_id)
    /\ b_idx' = b_idx + 1
    /\ UNCHANGED <<bfsInputs, b_pc, b_hop, b_frontier, b_result, bfsFrame>>

\* the frontier is exhausted, or the cap is reached (break): frontier = next_frontier
BfsFrontierDone ==
    /\ b_pc = "node"
    /\ b_idx > Len(b_frontier) \/ Len(b_collected_edges) >= b_max_edges
    /\ b_frontier' = b_next_frontier
    /\ b_pc' = "hop"
    /\ UNCHANGED <<bfsInputs, b_hop, b_idx, b_next_frontier, b_visited_nodes,
                   b_collected_edges, b_seen_edge_ids, b_fetches, b_result, bfsFrame>>

\* return collected_edges[:max_edges]
BfsReturn ==
    /\ b_pc = "return"
    /\ b_result' = SubSeq(b_collected_edges, 1, Min(b_max_edges, Len(b_collected_edges)))
    /\ b_pc' = "done"
    /\ UNCHANGED <<bfsInputs, b_hop, b_frontier, b_idx, b_next_frontier, b_visited_nodes,
                   b_collected_edges, b_seen_edge_ids, b_fetches, bfsFrame>>

InitBfs ==
    /\ b_pc = "hop"
    /\ b_edges \in BfsStores
    /\ b_start \in BfsStarts
    /\ b_max_hops \in 0..MaxHopsBound
    /\ b_max_edges \in 0..MaxEdgesBound
    /\ b_hop = 0
    /\ b_frontier = <<b_start>>
    /\ b_idx = 0
    /\ b_next_frontier = <<>>
    /\ b_visited_nodes = {b_start}
    /\ b_collected_edges = <<>>
    /\ b_seen_edge_ids = {}
    /\ b_fetches = <<>>
    /\ b_result = <<>>
    /\ SessionIdle
    /\ ResolveIdle
    /\ PathsIdle
    /\ NarrativeIdle
    /\ DedupIdle
    /\ EndpointsIdle
    /\ UploadIdle

NextBfs ==
    \/ BfsHop
    \/ BfsFetch
    \/ BfsFrontierDone
    \/ BfsReturn

SpecBfs ==
    InitBfs /\ [][NextBfs]_vars

\* the nodes joined to one of `ns` by an edge of the store, either way
BfsNeighbors(ns) ==
    {b_edges[i].target : i \in {j \in DOMAIN b_edges : b_edges[j].source \in ns}}
        \cup {b_edges[i].source : i \in {j \in DOMAIN b_edges : b_edges[j].target \in ns}}

\* the nodes at most k hops from the start entity
RECURSIVE WithinHops(_)
WithinHops(k) ==
    IF k < 0 THEN {}
    ELSE IF k = 0 THEN {b_start}
    ELSE WithinHops(k - 1) \cup BfsNeighbors(WithinHops(k - 1))

(***************************************************************************)
(* C29: bfs_collect_evidence(start, max_hops, max_edges) returns at most   *)
(* max_edges edges with pairwise distinct edge ids, fetches the edges of   *)
(* each node at most once, and only fetches edges of nodes at distance     *)
(* less than max_hops from start, so every returned edge has an endpoint   *)
(* within max_hops - 1 hops of the start entity.                           *)
(***************************************************************************)
C29_BfsBounded ==
    /\ \A i, j \in DOMAIN b_fetches : b_fetches[i] = b_fetches[j] => i = j
    /\ \A i \in DOMAIN b_fetches : b_fetches[i] \in WithinHops(b_max_hops - 1)
    /\ b_pc = "done" =>
          /\ Len(b_result) <= b_max_edges
          /\ \A i, j \in DOMAIN b_result : b_result[i].id = b_result[j].id => i = j
          /\ \A i \in DOMAIN b_result :
                /\ \E k \in DOMAIN b_edges : b_edges[k] = b_result[i]
                /\ {b_result[i].source, b_result[i].target}
                       \cap WithinHops(b_max_hops - 1) # {}

\* a two-hop traversal from "a": "a" and then "b" were fetched, the nodes "c" and
\* "d" at distance two were reached but not fetched, and the edges collected
\* exceed the cap, which the result keeps
C29_Witness ==
    /\ b_pc = "done"
    /\ b_max_hops = 2
    /\ b_fetches = <<"a", "b">>
    /\ {"c", "d"} \subseteq b_visited_nodes
    /\ Len(b_collected_edges) > b_max_edges
    /\ Len(b_result) = b_max_edges
    /\ b_max_edges > 0

\* Pass 2 has applied the merge groups of the run's batches
Pass2Applied ==
    d_pc = "plan" /\ d_batch > 1

(***************************************************************************)
(* C21 as stated: after Deduplicate Pass 2 has applied any sequence of     *)
(* merge groups returned by the text model (overlapping groups, groups     *)
(* naming ids already merged away or unknown ids, groups repeating an id), *)
(* the remap table is transitively resolved: for every id x in it,         *)
(* remap[x] is the id of a surviving canonical entity and                  *)
(* remap[remap[x]] = remap[x].                                             *)
(***************************************************************************)
C21_RemapResolved ==
    Pass2Applied =>
        \A x \in DOMAIN d_remap :
            /\ d_remap[x] \in RowIds(d_merged)
            /\ d_remap[d_remap[x]] = d_remap[x]

\* the same, for the runs in which no merge group repeated an id
C21_ResolvedWithoutRepeats ==
    (Pass2Applied /\ \A g \in DOMAIN d_all_merge_groups :
                        d_all_merge_groups[g].type = "list" =>
                            \A i, j \in DOMAIN d_all_merge_groups[g].items :
                                d_all_merge_groups[g].items[i] = d_all_merge_groups[g].items[j]
                                    => i = j)
        => \A x \in DOMAIN d_remap :
               /\ d_remap[x] \in RowIds(d_merged)
               /\ d_remap[d_remap[x]] = d_remap[x]

\* the ids Pass 1 merged away in the run that has just returned
Pass1Duplicates ==
    DuplicateIds(Pass1Remap(d_raw_nodes))

\* every Pass 1 merge of the run is in the store: the duplicate nodes are gone and
\* no edge names one of them
Pass1MergesApplied ==
    /\ RowIds(s_nodes) \cap Pass1Duplicates = {}
    /\ \A i \in DOMAIN s_edges :
           /\ s_edges[i].source \notin Pass1Duplicates
           /\ s_edges[i].target \notin Pass1Duplicates

\* a run in which the call of a batch failed has returned: it did not abort and
\* the Pass 1 merges are applied
FailedBatchRunCompletes ==
    (d_pc = "returned" /\ d_failed_batches # {}) =>
        /\ d_reports[Len(d_reports)].status = "ok"
        /\ Pass1MergesApplied

\* the step of a batch whose call failed adds no merge group and goes on to the
\* next batch
FailedBatchStep ==
    d_failed_batches' \notin {d_failed_batches, {}} =>
        /\ d_all_merge_groups' = d_all_merge_groups
        /\ d_batch' = d_batch + 1
        /\ d_pc' = "pass2_batches"

\* no merge group of the run names an id twice
NoRepeatedIds ==
    \A g \in DOMAIN d_all_merge_groups :
        d_all_merge_groups[g].type = "list" =>
            \A i, j \in DOMAIN d_all_merge_groups[g].items :
                d_all_merge_groups[g].items[i] = d_all_merge_groups[g].items[j] => i = j

(***************************************************************************)
(* C23 as stated: if the text-model call of one Pass 2 batch fails or      *)
(* returns unparsable output, that batch contributes no semantic merges,   *)
(* the remaining batches are still processed, deduplicate does not abort,  *)
(* and every Pass 1 heuristic merge is still applied to the store.         *)
(***************************************************************************)
C23_FailedBatchSkipped ==
    []FailedBatchRunCompletes /\ [][FailedBatchStep]_vars

\* the same, for the runs in which no merge group of another batch repeats an id
C23_SkippedWithoutRepeats ==
    [](NoRepeatedIds => FailedBatchRunCompletes) /\ [][FailedBatchStep]_vars

\* the position of a program point in the Apply stage: the rewiring, the self-loop
\* deletion, the duplicate-edge deletion, the upsert, the node cleanup, the return
ApplyRank(at) ==
    CASE at \in {"rewire", "rewire_target"} -> 1
      [] at = "delete_self_loops" -> 2
      [] at \in {"find_duplicate_edges", "delete_duplicate_edges"} -> 3
      [] at = "upsert_canonical" -> 4
      [] at \in {"delete_edges_by_source", "delete_edges_by_target", "delete_nodes"} -> 5
      [] at = "report" -> 6
      [] at = "returned" -> 7
      [] OTHER -> 0

\* the ids of the rows of an edges table
EdgeIdsOf(edges) ==
    {edges[i].id : i \in DOMAIN edges}

\* both ends of every stored edge are stored nodes
NoEdgeToDeletedNode ==
    \A i \in DOMAIN s_edges :
        /\ s_edges[i].source \in RowIds(s_nodes)
        /\ s_edges[i].target \in RowIds(s_nodes)

\* a step that deletes nodes is the node cleanup of a chunk of duplicate_ids: the
\* rewiring loop is over, no stored edge names a node of the chunk, and neither a
\* self-loop nor a duplicate edge is left
NodeDeletionStep ==
    LET gone == RowIds(s_nodes) \ RowIds(s_nodes')
    IN  gone # {} =>
            /\ d_pc = "delete_nodes"
            /\ d_todo = {}
            /\ gone \subseteq DuplicateIds(d_remap)
            /\ \A i \in DOMAIN s_edges :
                   /\ s_edges[i].source \notin gone
                   /\ s_edges[i].target \notin gone
                   /\ s_edges[i].source # s_edges[i].target
            /\ DuplicateEdgeIds(s_edges) = {}

\* a step that changes an end of an edge is a rewiring step, and the new end is the
\* canonical id of the old one
EdgeRewriteStep ==
    \A i \in DOMAIN s_edges, j \in DOMAIN s_edges' :
        (s_edges[i].id = s_edges'[j].id /\ s_edges[i] # s_edges'[j]) =>
            /\ ApplyRank(d_pc) = 1
            /\ s_edges'[j].source \in {s_edges[i].source, d_remap[s_edges[i].source]}
            /\ s_edges'[j].target \in {s_edges[i].target, d_remap[s_edges[i].target]}
            /\ s_edges'[j].predicate = s_edges[i].predicate

\* a step that deletes edges deletes self-loops in the self-loop stage or later
\* occurrences of a (source, predicate, target) in the duplicate-edge stage
EdgeDeletionStep ==
    LET gone == EdgeIdsOf(s_edges) \ EdgeIdsOf(s_edges')
    IN  gone # {} =>
            \/ /\ d_pc = "delete_self_loops"
               /\ \A i \in DOMAIN s_edges :
                      s_edges[i].id \in gone => s_edges[i].source = s_edges[i].target
            \/ /\ d_pc = "delete_duplicate_edges"
               /\ gone \subseteq DuplicateEdgeIds(s_edges)

\* the stages of a run follow each other in the order of ApplyRank
ApplyOrderStep ==
    \/ ApplyRank(d_pc') >= ApplyRank(d_pc)
    \/ d_pc' = "fetched_nodes"

(***************************************************************************)
(* C22: during the Apply stage of deduplicate a duplicate node is deleted  *)
(* only after every edge that referenced it has been retargeted to its     *)
(* canonical id or deleted; in no intermediate store state of a run does   *)
(* an edge reference a node that has already been deleted; and the steps   *)
(* occur in the order edge rewrite, self-loop deletion, duplicate-edge     *)
(* deletion, node deletion.                                                *)
(***************************************************************************)
C22_ApplyOrder ==
    /\ []NoEdgeToDeletedNode
    /\ [][/\ NodeDeletionStep
          /\ EdgeRewriteStep
          /\ EdgeDeletionStep
          /\ ApplyOrderStep]_vars

\* the first run of a store is about to return: it rewired an edge, deleted a
\* self-loop and a duplicate edge, and deleted a duplicate node
C22_Witness ==
    /\ d_pc = "report"
    /\ d_reports = <<>>
    /\ d_self_loop_ids # {}
    /\ d_dup_edge_ids # {}
    /\ RowIds(d_store0.nodes) \ RowIds(s_nodes) # {}
    /\ \E i \in DOMAIN s_edges, j \in DOMAIN d_store0.edges :
           /\ s_edges[i].id = d_store0.edges[j].id
           /\ s_edges[i] # d_store0.edges[j]
    /\ Len(d_chunks) = 0
    /\ Len(d_duplicate_ids) > CHUNK

(***************************************************************************)
(* SpecDedupRerun: a run of deduplicate_graph that a raising store         *)
(* operation ends in the except clause, and the run after it               *)
(***************************************************************************)
\* a store operation of the Apply stage raises: the except clause answers 500;
\* the operations before it stay in the store
DedupInterrupt ==
    /\ ApplyRank(d_pc) \in 1..5
    /\ d_reports = <<>>
    /\ d_reports' = Append(d_reports, FailureReport)
    /\ d_interrupted' = [done |-> TRUE, groups |-> d_all_merge_groups]
    /\ d_pc' = "returned"
    /\ UNCHANGED <<s_nodes, s_edges, dedupLocals, sessionVars, poolVars, resolveVars,
                   pathVars, narrativeVars, endpointVars, bfsVars, uploadVars, addVars, d_client,
                   d_store0>>

\* the edges tables of the interrupted runs: no edge, or every edge of the pool whose
\* ends are stored nodes
RerunEdgeTables(nodes) ==
    {t \in EdgeTables(nodes) : t = <<>> \/ \A u \in EdgeTables(nodes) : Len(u) <= Len(t)}

InitDedupRerun ==
    /\ SessionIdle
    /\ ResolveIdle
    /\ BfsIdle
    /\ UploadIdle
    /\ PathsIdle
    /\ NarrativeIdle
    /\ EndpointsIdle
    /\ AddIdle
    /\ s_nodes \in NodeTables
    /\ s_edges \in RerunEdgeTables(s_nodes)
    /\ d_client \in BOOLEAN
    /\ d_pc = "idle"
    /\ DedupLocalsInit

NextDedupRerun ==
    \/ NextDedup
    \/ DedupInterrupt

SpecDedupRerun ==
    InitDedupRerun /\ [][NextDedupRerun]_vars

\* the edges after the rewiring loop has run for every remap pair
Rewired(edges, remap) ==
    [i \in DOMAIN edges |->
        [edges[i] EXCEPT !.source = remap[edges[i].source],
                         !.target = remap[edges[i].target]]]

\* the store a run leaves when no operation raises, from the store it starts on and
\* the merge groups the text model returns
UninterruptedRun(store, client, groups) ==
    LET merged0 == Pass1Merged(store.nodes)
        start == Pass2State(merged0, Pass1Remap(store.nodes), 0, FALSE)
        st == IF client /\ Len(merged0) > SemanticThreshold
              THEN ApplyMergeGroups(start, groups) ELSE start
        rewired == Rewired(store.edges, st.remap)
        no_loops == SelectSeq(rewired, LAMBDA e : e.source # e.target)
        kept == SelectSeq(no_loops, LAMBDA e : e.id \notin DuplicateEdgeIds(no_loops))
    IN  IF st.raised \/ DuplicateIds(st.remap) = {}
        THEN store
        ELSE [nodes |-> DeleteNodesById(Upsert(store.nodes, st.merged),
                                        DuplicateIds(st.remap)),
              edges |-> kept]

\* the first run was ended by an exception and the second run has returned its report
RerunCompleted ==
    /\ d_pc = "returned"
    /\ d_interrupted.done
    /\ Len(d_reports) = 2
    /\ d_reports[2].status = "ok"

\* a second run that asked the text model got the merge groups of the first run
SameAnswers ==
    d_batch > 1 => d_all_merge_groups = d_interrupted.groups

\* the store holds the nodes and the edges an uninterrupted run on the original
\* store leaves
SameAsUninterrupted ==
    \E u \in {UninterruptedRun(d_store0, d_client, d_interrupted.groups)} :
        /\ RowIds(s_nodes) = RowIds(u.nodes)
        /\ RowSet(s_edges) = RowSet(u.edges)

(***************************************************************************)
(* C24 as stated: deduplicate is safe to re-run after an interruption: if  *)
(* a run aborts with an exception after any prefix of its store            *)
(* operations, a subsequent complete run with the same text-model answers  *)
(* ends with the same node set and edge set as an uninterrupted run on the *)
(* original store would have produced.                                     *)
(***************************************************************************)
C24_RerunSafe ==
    (RerunCompleted /\ SameAnswers) => SameAsUninterrupted

\* the same, for the second runs that ask the text model again whenever the first
\* run got a merge group from it
C24_RerunSafeWhenAskedAgain ==
    (RerunCompleted /\ SameAnswers /\ (d_interrupted.groups # <<>> => d_batch > 1))
        => SameAsUninterrupted

\* a first run that no exception ends leaves the store UninterruptedRun computes
UninterruptedRunIsTheRun ==
    (d_pc = "report" /\ d_reports = <<>>) =>
        \E u \in {UninterruptedRun(d_store0, d_client, d_all_merge_groups)} :
            /\ s_nodes = u.nodes
            /\ s_edges = u.edges

\* the reformulations a query text is made of: f"{rq[0]} {rq[1]}" holds both
QueryParts(text) ==
    CASE text = "r1 r2" -> {"r1", "r2"}
      [] text \in {"r1", "r2", "r3"} -> {text}
      [] OTHER -> {}

\* the query texts the semantic search passes have sent, in order
PassQueries ==
    SelectSeq(log, LAMBDA e : /\ e.kind = "call"
                              /\ e.type = "semantic_search"
                              /\ e.phase = "semantic_search")

(***************************************************************************)
(* C31 as stated: whenever SemanticSearch Pass 3 uses a model-suggested    *)
(* reformulation as its query (rather than the primary entity combined     *)
(* with a connected entity), that reformulation is an unused one: it is    *)
(* not part of the query text already sent in Pass 2, for any number of    *)
(* reformulations returned by query analysis.                              *)
(***************************************************************************)
C31_Pass3ReformulationUnused ==
    \A i, j \in DOMAIN PassQueries :
        (i < j /\ PassQueries[j].detail \in {"r1", "r2", "r3"})
            => PassQueries[j].detail \notin QueryParts(PassQueries[i].detail)

\* the same, for the analyses that return three reformulations or more
C31_UnusedWithThreeReformulations ==
    (HasLen(reformulated_queries) /\ Len(reformulated_queries.items) >= 3)
        => C31_Pass3ReformulationUnused

\* row["evidence_text"] of a row keyword_search_evidence returns
EvidenceText(row) ==
    CASE row = "e1" -> <<"e", "v", "1">>
      [] OTHER -> <<"e", "v">>

\* the text is in the deduplicated pool: its signature is in seen_texts and a chunk
\* of the pool carries it
InPool(text) ==
    /\ ChunkSig(text) \in seen_texts
    /\ \E i \in DOMAIN all_context_chunks :
           ChunkSig(all_context_chunks[i].text) = ChunkSig(text)

\* every row of the relational evidence-text search is in the pool
RelationalMatchesInPool ==
    \A i \in DOMAIN keyword_results : InPool(EvidenceText(keyword_results[i]))

\* a filtered vector query of the keyword search leaves the pool _add_chunks makes of
\* its results
VectorMatchesStep ==
    (pc = "E_query" /\ kw_idx' = kw_idx + 1) =>
        \E kw_results \in KeywordVectorResults :
            /\ all_context_chunks' =
                   AddChunksFrom(kw_results, all_context_chunks, seen_texts).pool
            /\ seen_texts' = AddChunksFrom(kw_results, all_context_chunks, seen_texts).seen
            /\ \A i \in DOMAIN kw_results : ChunkSig(kw_results[i].text) \in seen_texts'

(***************************************************************************)
(* C32 as stated: every match produced by KeywordSearch - both the results *)
(* of the filtered vector queries and the rows of the relational           *)
(* evidence-text substring search - is merged into the same deduplicated   *)
(* chunk pool that the semantic passes fill.                               *)
(***************************************************************************)
C32_KeywordMatchesInPool ==
    []RelationalMatchesInPool /\ [][VectorMatchesStep]_vars

\* the same, for the results of the filtered vector queries alone
C32_VectorMatchesInPool ==
    [][VectorMatchesStep]_vars

(***************************************************************************)
(* process_upload: the chunks of a document are embedded and upserted      *)
(***************************************************************************)
\* for attempt in range(3)
EmbedAttempts ==
    3

\* UPSERT_BATCH_SIZE = 100, scaled to the model's documents
UPSERT_BATCH_SIZE ==
    2

\* the documents: pages in order, a page the windows text[start:start + 1500] in
\* order, a window "t" when its stripped text is not empty and "b" when it is
UploadDocs ==
    {<<>>,
     <<<<"t">>>>,
     <<<<"b", "t">>>>,
     <<<<"t", "t", "t">>>>,
     <<<<"t", "b", "t">>, <<"t">>>>,
     <<<<"t", "t">>, <<>>, <<"t", "t", "t">>>>}

\* vec_id = f"{filename}-p{page_num}-{i}"
VecId(page, i) ==
    <<page, i>>

\* the run is at the end of the pages
PagesDone ==
    u_page > Len(u_doc)

\* the run is at the end of the windows of the page
PageDone ==
    u_pos > Len(u_doc[u_page])

uploadFrame ==
    <<sessionVars, poolVars, resolveVars, pathVars, narrativeVars, writerVars, endpointVars,
      bfsVars>>

\* the guards, blob.upload_from_filename and extract_text_from_pdf: a missing
\* collaborator returns, a raising call leaves through the finally clause
UploadBegin ==
    /\ u_pc = "begin"
    /\ u_pc' \in {"aborted", "page"}
    /\ UNCHANGED <<u_doc, u_page, u_pos, u_i, u_attempt, u_batch, u_calls, u_upserts,
                   uploadFrame>>

\* for page_data in pages: start = 0, i = 0
UploadPage ==
    /\ u_pc = "page"
    /\ ~PagesDone
    /\ u_pos' = 1
    /\ u_i' = 0
    /\ u_pc' = "window"
    /\ UNCHANGED <<u_doc, u_page, u_attempt, u_batch, u_calls, u_upserts, uploadFrame>>

\* while start < len(text): the next window; an empty chunk is passed over and i
\* stays; for the others _extract_chunk_metadata runs, which catches what it raises
UploadWindow ==
    /\ u_pc = "window"
    /\ IF PageDone
       THEN /\ u_page' = u_page + 1
            /\ u_pc' = "page"
            /\ UNCHANGED <<u_pos, u_attempt>>
       ELSE IF u_doc[u_page][u_pos] = "b"
       THEN /\ u_pos' = u_pos + 1
            /\ UNCHANGED <<u_page, u_pc, u_attempt>>
       ELSE /\ u_attempt' = 0
            /\ u_pc' = "embed"
            /\ UNCHANGED <<u_page, u_pos>>
    /\ UNCHANGED <<u_doc, u_i, u_batch, u_calls, u_upserts, uploadFrame>>

\* one embedding call of a chunk
EmbedCall(id, attempt, ok) ==
    [id |-> id, attempt |-> attempt, ok |-> ok]

\* a failed attempt is followed by another one
RetryDue(attempt) ==
    attempt < EmbedAttempts - 1

\* one pass of the attempt loop: embed_content and the append to the batch, in the
\* try; a raise is followed by the sleep and the next attempt, or drops the chunk
UploadEmbed ==
    /\ u_pc = "embed"
    /\ \E ok \in BOOLEAN :
           /\ u_calls' = Append(u_calls, EmbedCall(VecId(u_page, u_i), u_attempt, ok))
           /\ IF ok
              THEN /\ u_batch' = Append(u_batch, VecId(u_page, u_i))
                   /\ u_pc' = "flush"
                   /\ UNCHANGED u_attempt
              ELSE IF RetryDue(u_attempt)
              THEN /\ u_attempt' = u_attempt + 1
                   /\ UNCHANGED <<u_batch, u_pc>>
              ELSE /\ u_pc' = "flush"
                   /\ UNCHANGED <<u_batch, u_attempt>>
    /\ UNCHANGED <<u_doc, u_page, u_pos, u_i, u_upserts, uploadFrame>>

\* a batch that never empties
BatchAfterUpsertKept(batch) ==
    batch

\* batch = [] after the upsert
BatchAfterUpsert(batch) ==
    <<>>

\* if len(batch) >= UPSERT_BATCH_SIZE: index.upsert and the dual write, which
\* catches what it raises; a raising upsert ends the run; then i += 1 and the
\* next window
UploadFlush ==
    /\ u_pc = "flush"
    /\ IF Len(u_batch) >= UPSERT_BATCH_SIZE
       THEN \/ /\ u_upserts' = u_upserts \o u_batch
               /\ u_batch' = BatchAfterUpsert(u_batch)
               /\ u_i' = u_i + 1
               /\ u_pos' = u_pos + 1
               /\ u_pc' = "window"
            \/ /\ u_pc' = "aborted"
               /\ UNCHANGED <<u_upserts, u_batch, u_i, u_pos>>
       ELSE /\ u_i' = u_i + 1
            /\ u_pos' = u_pos + 1
            /\ u_pc' = "window"
            /\ UNCHANGED <<u_upserts, u_batch>>
    /\ UNCHANGED <<u_doc, u_page, u_attempt, u_calls, uploadFrame>>

\* if batch: index.upsert and the dual write, after the last page
UploadLastFlush ==
    /\ u_pc = "page"
    /\ PagesDone
    /\ IF u_batch # <<>>
       THEN \/ /\ u_upserts' = u_upserts \o u_batch
               /\ u_batch' = BatchAfterUpsert(u_batch)
               /\ u_pc' = "finished"
            \/ /\ u_pc' = "aborted"
               /\ UNCHANGED <<u_upserts, u_batch>>
       ELSE /\ u_pc' = "finished"
            /\ UNCHANGED <<u_upserts, u_batch>>
    /\ UNCHANGED <<u_doc, u_page, u_pos, u_i, u_attempt, u_calls, uploadFrame>>

InitUpload ==
    /\ SessionIdle
    /\ ResolveIdle
    /\ PathsIdle
    /\ NarrativeIdle
    /\ DedupIdle
    /\ EndpointsIdle
    /\ BfsIdle
    /\ u_pc = "begin"
    /\ u_doc \in UploadDocs
    /\ u_page = 1
    /\ u_pos = 1
    /\ u_i = 0
    /\ u_attempt = 0
    /\ u_batch = <<>>
    /\ u_calls = <<>>
    /\ u_upserts = <<>>

NextUpload ==
    \/ UploadBegin
    \/ UploadPage
    \/ UploadWindow
    \/ UploadEmbed
    \/ UploadFlush
    \/ UploadLastFlush

SpecUpload ==
    InitUpload /\ [][NextUpload]_vars

\* the vector ids of the document's chunks: on every page i counts the chunks that
\* are not empty
DocIds ==
    UNION {{VecId(p, i) :
               i \in 0..(Cardinality({k \in DOMAIN u_doc[p] : u_doc[p][k] = "t"}) - 1)} :
           p \in DOMAIN u_doc}

\* the embedding calls made for a chunk, in order
CallsFor(id) ==
    SelectSeq(u_calls, LAMBDA c : c.id = id)

\* an embedding call of the chunk succeeded
Embedded(id) ==
    \E k \in DOMAIN u_calls : u_calls[k].id = id /\ u_calls[k].ok

\* how often the chunk was sent to the index
UpsertCount(id) ==
    Cardinality({k \in DOMAIN u_upserts : u_upserts[k] = id})

\* at most EmbedAttempts calls per chunk, and none after a success
AttemptsBounded ==
    \A k \in DOMAIN u_calls :
        /\ u_calls[k].id \in DocIds
        /\ Len(CallsFor(u_calls[k].id)) <= EmbedAttempts
        /\ \A j \in DOMAIN CallsFor(u_calls[k].id) :
               /\ CallsFor(u_calls[k].id)[j].attempt = j - 1
               /\ CallsFor(u_calls[k].id)[j].ok => j = Len(CallsFor(u_calls[k].id))

\* no chunk is upserted twice, and none that was not embedded
UpsertedAtMostOnce ==
    \A k \in DOMAIN u_upserts :
        /\ UpsertCount(u_upserts[k]) = 1
        /\ Embedded(u_upserts[k])

\* every chunk of the document was embedded or had all its attempts, and every
\* embedded chunk is in the index once
AllChunksProcessed ==
    \A id \in DocIds :
        /\ Embedded(id) \/ Len(CallsFor(id)) = EmbedAttempts
        /\ Embedded(id) => UpsertCount(id) = 1

\* the ingestion of the document's chunks has begun and the run has ended
IngestionEnded ==
    \/ u_pc = "finished"
    \/ u_pc = "aborted" /\ u_calls # <<>>

GeneratorStep ==
    \/ StartQueryAnalysis
    \/ QueryAnalysis
    \/ EntityIntelEntry
    \/ EntityIntelLookup
    \/ GraphTraversalEntry
    \/ GraphTraversalCollect
    \/ SemanticStart
    \/ SemanticPass1
    \/ SemanticPass2
    \/ SemanticPass3
    \/ KeywordStart
    \/ KeywordVectorQuery
    \/ KeywordRelational
    \/ SynthesisStart
    \/ SynthesisContext
    \/ NoContextStatus
    \/ NoContextDone
    \/ LaunchProducer
    \/ ConsumeItem
    \/ JoinProducer
    \/ SynthesisFailedStatus
    \/ WebSearchDone
    \/ WebSources
    \/ Sources
    \/ FollowUps
    \/ Done
    \/ DriverCrashText
    \/ DriverCrashDone

\* the steps of the thread of _produce_chunks: the executor runs it, the stream call
\* returns or raises, and the stream hands out a chunk, raises or ends
ProducerStep ==
    \/ ProducerCall
    \/ ProducerChunk
    \/ ProducerStreamError
    \/ ProducerStreamEnd

SpecLive ==
    Init /\ [][Next]_vars /\ WF_vars(GeneratorStep) /\ WF_vars(ProducerStep)

\* the consumer is at chunk_queue.get
ConsumerWaits ==
    pc = "F_consume"

\* while the consumer waits on a producer that has left its function, the sentinel
\* is in the queue
SentinelOnEveryExit ==
    (ConsumerWaits /\ producer = "exited") =>
        \E i \in DOMAIN chunk_queue : chunk_queue[i].tag = "sentinel"

(***************************************************************************)
(* C34: liveness of the pipeline: assuming every external call eventually  *)
(* returns or raises and the caller keeps consuming events, every run      *)
(* eventually emits done; in particular the synthesis consumer never waits *)
(* forever on the chunk queue, because the producer enqueues the           *)
(* end-of-stream marker on every exit path, including when creating or     *)
(* iterating the model stream raises.                                      *)
(***************************************************************************)
C34_EventuallyDone ==
    /\ <>(EventsOfType("done") # <<>>)
    /\ ConsumerWaits ~> ~ConsumerWaits
    /\ []SentinelOnEveryExit

\* a finished run whose producer raised while the stream was read, after a chunk
\* had been streamed: the consumer got the error, the
\* synthesis ended with status error, and done was emitted
C34_Witness ==
    /\ pc = "finished"
    /\ producer = "exited"
    /\ produced > 0
    /\ "synthesis" \in failed_calls
    /\ synthesis_text_parts # <<>>
    /\ LastStatus("synthesis").status = "error"
    /\ Len(EventsOfType("done")) = 1

\* the nodes the run that has just returned took out of the store: the ids it
\* fetched that the store no longer holds
NodesDeleted ==
    RowIds(d_raw_nodes) \ RowIds(s_nodes)

\* removed_nodes of the last report is the number of ids remapped to another id
\* and the number of nodes deleted
RemovedIsRemappedAndDeleted ==
    /\ d_reports[Len(d_reports)].removed_nodes = Cardinality(DuplicateIds(d_remap))
    /\ d_reports[Len(d_reports)].removed_nodes = Cardinality(NodesDeleted)

(***************************************************************************)
(* C35 as stated: in every completed deduplicate run the reported merged   *)
(* count equals the reported removed_nodes count, which equals the number  *)
(* of node ids remapped to a different canonical id and the number of      *)
(* nodes actually deleted from the store, for any merge groups the text    *)
(* model returns.                                                          *)
(***************************************************************************)
C35_CountsAgree ==
    RunCompleted =>
        /\ d_reports[Len(d_reports)].merged = d_reports[Len(d_reports)].removed_nodes
        /\ RemovedIsRemappedAndDeleted

\* the same, for the runs in which no merge group repeats an id
C35_CountsAgreeWithoutRepeats ==
    (RunCompleted /\ NoRepeatedIds) =>
        /\ d_reports[Len(d_reports)].merged = d_reports[Len(d_reports)].removed_nodes
        /\ RemovedIsRemappedAndDeleted

\* removed_nodes alone, for any merge groups
C35_RemovedNodesExact ==
    RunCompleted => RemovedIsRemappedAndDeleted

\* the store is as the run that has just returned found it: as it was before the
\* first run, or as the first run's answer shows it
StoreAsFound ==
    /\ s_nodes = d_raw_nodes
    /\ Len(d_reports) = 1 =>
           /\ s_nodes = d_store0.nodes
           /\ s_edges = d_store0.edges
    /\ (Len(d_reports) = 2 /\ d_reports[1].status = "ok") =>
           /\ s_nodes = d_reports[1].nodes
           /\ s_edges = d_reports[1].edges

\* a completed run that found no node id to remap reports zeros, answers with
\* the store it found and leaves it as it found it
NoRemapNoChange ==
    (RunCompleted /\ DuplicateIds(d_remap) = {}) =>
        /\ d_reports[Len(d_reports)].merged = 0
        /\ d_reports[Len(d_reports)].removed_nodes = 0
        /\ d_reports[Len(d_reports)].removed_edges = 0
        /\ d_reports[Len(d_reports)].nodes = s_nodes
        /\ d_reports[Len(d_reports)].edges = s_edges
        /\ StoreAsFound

\* a step that writes to the store is a step of a run with an id to remap
WriteOnlyWithRemap ==
    (s_nodes' # s_nodes \/ s_edges' # s_edges) => DuplicateIds(d_remap) # {}

(***************************************************************************)
(* C36: when deduplicate finds no node id to remap (no two nodes share a   *)
(* (normalized label, type) key and Pass 2 yields no merge), it performs   *)
(* no update, upsert or delete on the store - all nodes and all edges,     *)
(* including any pre-existing self-loop or duplicate-key edges, are left   *)
(* unchanged - and it reports merged = 0, removed_nodes = 0,               *)
(* removed_edges = 0.                                                      *)
(***************************************************************************)
C36_NoRemapNoWrite ==
    []NoRemapNoChange /\ [][WriteOnlyWithRemap]_vars

\* a first run with a text model over eleven entities, none of them merged, on
\* a store that holds a self-loop and two edges of one key: it returned zeros
\* and the three edges are stored
C36_Witness ==
    /\ RunCompleted
    /\ Len(d_reports) = 1
    /\ d_client
    /\ Len(d_raw_nodes) > 10
    /\ DuplicateIds(d_remap) = {}
    /\ d_reports[1].merged = 0
    /\ d_reports[1].removed_edges = 0
    /\ \E i \in DOMAIN s_edges : s_edges[i].source = s_edges[i].target
    /\ \E i, j \in DOMAIN s_edges :
           /\ i # j
           /\ s_edges[i].source = s_edges[j].source
           /\ s_edges[i].predicate = s_edges[j].predicate
           /\ s_edges[i].target = s_edges[j].target

\* the node ids of a returned path
NodesOf(path) ==
    [i \in DOMAIN path |-> path[i].node]

\* the returned paths are in non-decreasing hop count
HopsNonDecreasing ==
    \A i, j \in DOMAIN f_visited_paths :
        i < j => Len(f_visited_paths[i]) <= Len(f_visited_paths[j])

\* the first returned path is a shortest simple path between start and end
FirstIsShortest ==
    f_visited_paths # <<>> =>
        \A p \in SimplePaths : Len(f_visited_paths[1]) <= Len(p)

\* every simple path with fewer hops than a returned path is returned before it
ShorterReturnedBefore ==
    \A i \in DOMAIN f_visited_paths :
        \A p \in SimplePaths :
            Len(p) < Len(f_visited_paths[i]) =>
                \E j \in 1..(i - 1) : NodesOf(f_visited_paths[j]) = p

(***************************************************************************)
(* C37: find_paths returns its paths in non-decreasing hop count           *)
(* (breadth-first order): the first returned path is a shortest path       *)
(* between the two entities, and a path of k hops is returned only if      *)
(* every simple path of fewer than k hops between them is returned before  *)
(* it.                                                                     *)
(***************************************************************************)
C37_BreadthFirstOrder ==
    f_pc = "returned" =>
        /\ HopsNonDecreasing
        /\ FirstIsShortest
        /\ ShorterReturnedBefore

\* a search that returned three paths of one, two and three hops on a graph in
\* which the direct edge is stored last and backward
C37_Witness ==
    /\ f_pc = "returned"
    /\ Len(f_visited_paths) = 3
    /\ Len(f_visited_paths[1]) - 1 = 1
    /\ Len(f_visited_paths[2]) - 1 = 2
    /\ Len(f_visited_paths[3]) - 1 = 3
    /\ f_edges[Len(f_edges)].source = "D"
    /\ f_edges[Len(f_edges)].target = "A"

\* the indices of the nodes whose label normalizes to the empty string
EmptyLabels ==
    {i \in DOMAIN r_nodes : Normalize(r_nodes[i].label) = <<>>}

\* NotFound is returned only when no node matches by any rule
NotFoundOnlyWithoutMatch ==
    r_result = None =>
        /\ ExactHits(r_nodes, Normalize(r_name)) = {}
        /\ PartialHits(r_nodes, Normalize(r_name)) = {}
        /\ AliasHits(r_nodes, Normalize(r_name)) = {}
        /\ IdHits(r_nodes, Normalize(r_name)) = {}

\* a node whose label normalizes to the empty string passes the partial-label
\* test of every query, and a query without an exact-label match is resolved by
\* the partial-label rule
EmptyLabelMatchesEveryQuery ==
    \A i \in EmptyLabels :
        /\ i \in PartialHits(r_nodes, Normalize(r_name))
        /\ ExactHits(r_nodes, Normalize(r_name)) = {} =>
               ReturnsOneOf(PartialHits(r_nodes, Normalize(r_name)))

(***************************************************************************)
(* C38 as stated: find_entity_id returns NotFound only when no node        *)
(* matches by any rule, and the partial-label rule treats the empty string *)
(* as a substring of everything: on a non-empty graph a name that          *)
(* normalizes to the empty string (e.g. '???') is resolved to the first    *)
(* node in iteration order, and a node whose label normalizes to the empty *)
(* string matches every query that has no exact-label match among earlier  *)
(* rules.                                                                  *)
(***************************************************************************)
C38_EmptyNameResolvesToFirstNode ==
    r_pc = "returned" =>
        /\ NotFoundOnlyWithoutMatch
        /\ Normalize(r_name) = <<>> => r_result = Some(r_nodes[1].id)
        /\ EmptyLabelMatchesEveryQuery

(***************************************************************************)
(* C38, amended: find_entity_id returns NotFound only when no node matches *)
(* by any rule, and the partial-label rule treats the empty string as a    *)
(* substring of everything: on a non-empty graph a name that normalizes to *)
(* the empty string is resolved to the first node whose label normalizes   *)
(* to the empty string if there is one (the exact-label rule), and         *)
(* otherwise to the first node in iteration order; a node whose label      *)
(* normalizes to the empty string matches every query, and a query without *)
(* an exact-label match is then resolved by the partial-label rule.        *)
(***************************************************************************)
C38_EmptyStringMatches ==
    r_pc = "returned" =>
        /\ NotFoundOnlyWithoutMatch
        /\ (Normalize(r_name) = <<>> /\ EmptyLabels # {}) =>
               r_result = Some(r_nodes[CHOOSE i \in EmptyLabels :
                                           \A j \in EmptyLabels : i <= j].id)
        /\ (Normalize(r_name) = <<>> /\ EmptyLabels = {}) =>
               r_result = Some(r_nodes[1].id)
        /\ EmptyLabelMatchesEveryQuery

\* '???' against a list without an empty label, whose first node has no alias
\* and an id that is not the query: the first node is returned
C38_Witness ==
    /\ r_pc = "returned"
    /\ r_name = <<"?","?","?">>
    /\ r_nodes = <<NodeSmith, NodeBob, NodeJane>>
    /\ r_result = Some(NodeSmith.id)

\* the narrative lists the paths of the search, one line per hop
OneLinePerHop ==
    /\ Len(n_result.paths) = Len(f_visited_paths)
    /\ \A i \in DOMAIN n_result.paths :
           Len(n_result.paths[i]) = Len(f_visited_paths[i]) - 1

\* every line goes from the earlier node of the hop to the later one: the first
\* line starts at entity A, the last ends at entity B, and a line starts where
\* the line before it ends
LinesInTraversalOrder ==
    \A i \in DOMAIN n_result.paths :
        LET lines == n_result.paths[i]
        IN  /\ lines[1].from = LabelOf(n_graph.nodes, n_id_a[1])
            /\ lines[Len(lines)].to = LabelOf(n_graph.nodes, n_id_b[1])
            /\ \A j \in 1..(Len(lines) - 1) : lines[j].to = lines[j + 1].from
            /\ \A j \in DOMAIN lines :
                   /\ lines[j].from = LabelOf(n_graph.nodes, f_visited_paths[i][j].node)
                   /\ lines[j].to = LabelOf(n_graph.nodes, f_visited_paths[i][j + 1].node)

\* every line carries the predicate of a stored edge between its two nodes, in
\* either stored direction
LinesAreStoredEdges ==
    \A i \in DOMAIN n_result.paths :
        \A j \in DOMAIN n_result.paths[i] :
            \E k \in DOMAIN n_graph.edges :
                /\ n_graph.edges[k].predicate = n_result.paths[i][j].predicate
                /\ {LabelOf(n_graph.nodes, n_graph.edges[k].source),
                    LabelOf(n_graph.nodes, n_graph.edges[k].target)}
                       = {n_result.paths[i][j].from, n_result.paths[i][j].to}

\* an edge stored with source B and target A, the only edge between the two, is
\* shown in a one-hop path with A on the left and B on the right
StoredBackwardShownForward ==
    \A i \in DOMAIN n_result.paths :
        (/\ Len(n_result.paths[i]) = 1
         /\ \A k \in EdgesBetween(n_graph.edges, n_id_a[1], n_id_b[1]) :
                /\ n_graph.edges[k].source = n_id_b[1]
                /\ n_graph.edges[k].target = n_id_a[1]) =>
            /\ n_result.paths[i][1].from = LabelOf(n_graph.nodes, n_id_a[1])
            /\ n_result.paths[i][1].to = LabelOf(n_graph.nodes, n_id_b[1])

(***************************************************************************)
(* C39: in the connection narrative every hop is rendered as 'earlier node *)
(* --[predicate]--> later node' in traversal order from entity A toward    *)
(* entity B, independent of the stored direction of the edge: an edge      *)
(* stored with source B and target A is rendered with A on the left of the *)
(* arrow and B on the right.                                               *)
(***************************************************************************)
C39_HopsInTraversalOrder ==
    (n_pc = "returned" /\ n_result.kind = "paths") =>
        /\ OneLinePerHop
        /\ LinesInTraversalOrder
        /\ LinesAreStoredEdges
        /\ StoredBackwardShownForward

\* 'Acme Corp' to 'John Smith' over the graph whose only edge is stored as
\* John -sued-> Acme: one line, Acme Corp --[sued]--> John Smith
C39_Witness ==
    /\ n_pc = "returned"
    /\ n_result.kind = "paths"
    /\ n_id_a = Some(IdAcme)
    /\ n_id_b = Some(IdJohn)
    /\ n_graph.edges = <<StoredEdge(IdJohn, "sued", IdAcme)>>
    /\ n_result.paths = <<<<[from |-> LabelOf(n_graph.nodes, IdAcme),
                             predicate |-> "sued",
                             to |-> LabelOf(n_graph.nodes, IdJohn)]>>>>

====
